---- MODULE Spec2Model ----
(***************************************************************************)
(* Market-data aggregation layer of ai-stock-predictor: the quote handler  *)
(* (GET /stocks/{symbol}), the candle handler (GET /candles), the search   *)
(* handler (GET /search) and the observability recorder they share.        *)
(*                                                                         *)
(* Conventions of the model:                                               *)
(*  - a JavaScript string is a sequence of one-character strings;          *)
(*  - a JavaScript number is a record [k, n]: k = "fin" for a finite       *)
(*    number n, "nan" for NaN and "inf" for an infinity;                   *)
(*  - an error message is a record [text, len]: text is a tuple of string  *)
(*    pieces and len the number of characters of the message;              *)
(*  - a handler runs atomically from one await to the next, so each        *)
(*    action is the code between two awaits of one request.                *)
(***************************************************************************)
EXTENDS Integers, Sequences, FiniteSets, TLC

VARIABLES
    now,      \* Date.now(), epoch milliseconds
    ticks,    \* number of clock advances so far
    env,      \* process.env: the set of API keys that are configured
    records,  \* store.records of api-observability.ts
    cache,    \* globalThis.__candlesCache
    req,      \* the requests: request slot -> handler state
    lookups,  \* history: the cache lookups and cache writes, in the order they happened
    call      \* a function called on its own: its arguments and what it returned

vars == <<now, ticks, env, records, cache, req, lookups, call>>

----------------------------------------------------------------------------
(* Bounds of the model *)

\* number of requests in one behaviour of a single-handler specification
MaxRequests == 1
\* number of clock advances in one behaviour of a single-handler specification
MaxTicks == 1
\* number of rows in one upstream candle body
MaxRows == 2
\* number of candle requests in one behaviour of the cache specification
MaxCacheRequests == 3
\* number of clock advances in one behaviour of the cache specification
MaxCacheTicks == 2
\* number of candidates handed to the ranker in one call
MaxCandidates == 3
\* records appended to the log in one run of the recorder
MaxAppends == 1003
\* candidates handed to the score cutoff
MaxScored == 4
\* records in the log when the snapshot is taken
MaxSnapshotRecords == 21
\* candle requests and clock steps of the process whose windows are checked
MaxWindowRequests == 1
MaxWindowTicks == 2
\* search requests of the process whose requests are compared
MaxPairRequests == 2
\* records in the log when the recent calls are asked for
MaxRecentRecords == 503
\* words of a description that is scored
MaxWords == 3

RequestSlots == 1..(IF MaxRequests >= MaxCacheRequests THEN MaxRequests ELSE MaxCacheRequests)

----------------------------------------------------------------------------
(* JavaScript values *)

Fin(n) == [k |-> "fin", n |-> n]
NaN == [k |-> "nan", n |-> 0]
Infinity == [k |-> "inf", n |-> 0]

\* Number.isFinite
IsFinite(x) == x.k = "fin"

\* JSON values as they come out of res.json()
JNum(n) == [j |-> "num", n |-> n]          \* a JSON number
JHuge == [j |-> "huge", n |-> 0]           \* a JSON number such as 1e999
JStrNum(n) == [j |-> "strnum", n |-> n]    \* a string holding a numeral
JStrPct(n) == [j |-> "strpct", n |-> n]    \* a string holding "<numeral>%"
JStrJunk == [j |-> "strjunk", n |-> 0]     \* a string that is no numeral
JNull == [j |-> "null", n |-> 0]
JUndef == [j |-> "undef", n |-> 0]         \* the property is absent

\* Number(value)
Number(v) ==
    CASE v.j = "num" -> Fin(v.n)
      [] v.j = "huge" -> Infinity
      [] v.j = "strnum" -> Fin(v.n)
      [] v.j = "strpct" -> NaN
      [] v.j = "strjunk" -> NaN
      [] v.j = "null" -> Fin(0)
      [] OTHER -> NaN

Min(a, b) == IF a <= b THEN a ELSE b
Max(a, b) == IF a >= b THEN a ELSE b

\* an error message: its text and its length in characters
Msg(text, len) == [text |-> text, len |-> len]
NoError == Msg(<<>>, 0)
\* a template `<prefix>(<status>)` with a three-digit status
StatusMsg(prefix, prefixLen, status) == Msg(<<prefix, status, ")">>, prefixLen + 4)
\* String.prototype.slice(0, n) on a message
Slice(m, n) == Msg(m.text, Min(m.len, n))

\* strings as character sequences
Space == " "
\* the characters String.prototype.trim and the regular expression \s take for
\* white space
WhiteSpace == {" ", "\t", "\n"}
IsBlank(ch) == ch \in WhiteSpace

RECURSIVE TrimStart(_)
TrimStart(s) ==
    IF s = <<>> THEN <<>>
    ELSE IF IsBlank(Head(s)) THEN TrimStart(Tail(s)) ELSE s

RECURSIVE TrimEnd(_)
TrimEnd(s) ==
    IF s = <<>> THEN <<>>
    ELSE IF IsBlank(s[Len(s)]) THEN TrimEnd(SubSeq(s, 1, Len(s) - 1)) ELSE s

\* String.prototype.trim
\* a handler that takes the symbol as it comes
TrimNothing(s) == s
Trim(s) == TrimEnd(TrimStart(s))

LowerLetters == <<"a", "b", "c", "d", "e", "f", "g", "h", "i", "j", "k", "l", "m",
                  "n", "o", "p", "q", "r", "s", "t", "u", "v", "w", "x", "y", "z">>
UpperLetters == <<"A", "B", "C", "D", "E", "F", "G", "H", "I", "J", "K", "L", "M",
                  "N", "O", "P", "Q", "R", "S", "T", "U", "V", "W", "X", "Y", "Z">>

\* the letter e with an acute accent, small and capital, each one character
EAcute == "<e-acute>"
CapitalEAcute == "<E-acute>"

LowerSet == {LowerLetters[i] : i \in 1..26}
UpperSet == {UpperLetters[i] : i \in 1..26}

UpperChar(ch) ==
    IF ch \in LowerSet
    THEN UpperLetters[CHOOSE i \in 1..26 : LowerLetters[i] = ch]
    ELSE IF ch = EAcute THEN CapitalEAcute ELSE ch

LowerChar(ch) ==
    IF ch \in UpperSet
    THEN LowerLetters[CHOOSE i \in 1..26 : UpperLetters[i] = ch]
    ELSE IF ch = CapitalEAcute THEN EAcute ELSE ch

\* String.prototype.toUpperCase / toLowerCase
ToUpperCase(s) == SubSeq([i \in 1..Len(s) |-> UpperChar(s[i])], 1, Len(s))
ToLowerCase(s) == SubSeq([i \in 1..Len(s) |-> LowerChar(s[i])], 1, Len(s))

Digits == <<"0", "1", "2", "3", "4", "5", "6", "7", "8", "9">>
IsLower(ch) == ch \in LowerSet
IsUpper(ch) == ch \in UpperSet
DigitSet == {Digits[i] : i \in 1..10}
IsDigit(ch) == ch \in DigitSet

\* String.prototype.startsWith / includes
StartsWith(s, prefix) == Len(prefix) <= Len(s) /\ SubSeq(s, 1, Len(prefix)) = prefix
Includes(s, part) ==
    \E i \in 1..(Len(s) - Len(part) + 1) : SubSeq(s, i, i + Len(part) - 1) = part

\* the index of the first / last ch in s, 0 when there is none
IndexOf(s, ch) ==
    IF \E i \in 1..Len(s) : s[i] = ch
    THEN CHOOSE i \in 1..Len(s) : s[i] = ch /\ \A k \in 1..(i - 1) : s[k] # ch
    ELSE 0
LastIndexOf(s, ch) ==
    IF \E i \in 1..Len(s) : s[i] = ch
    THEN CHOOSE i \in 1..Len(s) : s[i] = ch /\ \A k \in (i + 1)..Len(s) : s[k] # ch
    ELSE 0

\* String.prototype.split(ch), as the sequence of the parts
RECURSIVE Split(_, _)
Split(s, ch) ==
    LET i == IndexOf(s, ch)
    IN IF i = 0 THEN <<s>>
       ELSE <<SubSeq(s, 1, i - 1)>> \o Split(SubSeq(s, i + 1, Len(s)), ch)

\* .filter(Boolean) on strings: the empty ones go
NonEmpty(parts) == LET Full(part) == part # <<>> IN SelectSeq(parts, Full)

\* Array.prototype.join(" ")
RECURSIVE JoinWords(_)
JoinWords(words) ==
    IF words = <<>> THEN <<>>
    ELSE IF Len(words) = 1 THEN words[1]
    ELSE words[1] \o <<Space>> \o JoinWords(Tail(words))

\* a request parameter that is absent (null / undefined)
Absent == <<"<absent>">>
\* value ?? ""
OrEmpty(raw) == IF raw = Absent THEN <<>> ELSE raw

----------------------------------------------------------------------------
(* Observability recorder: src/lib/api-observability.ts *)

MAX_RECORDS == 1000

Providers == {"finnhub", "twelvedata", "alphavantage"}
KeyOf(provider) ==
    CASE provider = "finnhub" -> "FINNHUB_API_KEY"
      [] provider = "twelvedata" -> "TWELVEDATA_API_KEY"
      [] OTHER -> "ALPHAVANTAGE_API_KEY"

\* a message kept whole
sanitizeErrorMessageWhole(error) == error

sanitizeErrorMessage(error) == Slice(error, 300)

\* a recorder that stores each record twice
appendRecordTwice(log, record) == Append(Append(log, record), record)

\* a recorder that evicts the newest records
appendRecordKeepOldest(log, record) ==
    LET pushed == Append(log, record)
    IN IF Len(pushed) > MAX_RECORDS THEN SubSeq(pushed, 1, MAX_RECORDS) ELSE pushed

\* store.records after appendRecord(record)
appendRecord(log, record) ==
    LET pushed == Append(log, record)
    IN IF Len(pushed) > MAX_RECORDS
       THEN SubSeq(pushed, Len(pushed) - MAX_RECORDS + 1, Len(pushed))
       ELSE pushed

toMs(startedAt, at) == Max(0, at - startedAt)

\* the ProviderAttempt built by the completion function of beginProviderAttempt
completeAttempt(provider, startedAt, status, error, at) ==
    [provider |-> provider,
     status |-> status,
     latencyMs |-> toMs(startedAt, at),
     error |-> IF status = "error" THEN sanitizeErrorMessage(error) ELSE NoError]

\* a recorder that reports a provider left out as one that failed
skippedAttemptAsError(provider, reason) ==
    [provider |-> provider,
     status |-> "error",
     latencyMs |-> 0,
     error |-> Slice(reason, 300)]

\* the ProviderAttempt built by recordSkippedProviderAttempt
skippedAttempt(provider, reason) ==
    [provider |-> provider,
     status |-> "skipped",
     latencyMs |-> 0,
     error |-> Slice(reason, 300)]

\* the ProviderRecord appended for an attempt
\* a record that leaves the request id out
toRecordAnonymous(attempt, requestId, route, at) ==
    [provider |-> attempt.provider,
     status |-> attempt.status,
     latencyMs |-> attempt.latencyMs,
     error |-> attempt.error,
     requestId |-> <<>>,
     route |-> route,
     at |-> at]

toRecord(attempt, requestId, route, at) ==
    [provider |-> attempt.provider,
     status |-> attempt.status,
     latencyMs |-> attempt.latencyMs,
     error |-> attempt.error,
     requestId |-> requestId,
     route |-> route,
     at |-> at]

\* [...values].sort((a, b) => a - b): the k-th of the sorted values is the
\* value that fewer than k of them lie below and at least k lie at or below
SortAscending(values) ==
    LET n == Len(values)
        Below(v) == Cardinality({i \in 1..n : values[i] < v})
        UpTo(v) == Cardinality({i \in 1..n : values[i] <= v})
    IN SubSeq([k \in 1..n |->
                  CHOOSE v \in {values[i] : i \in 1..n} : Below(v) < k /\ k <= UpTo(v)],
              1, n)

\* percentile(values, p); (p / 100) * n of the doubles 95 / 100 and n <= 1000
\* has the floor of the exact product
percentile(values, p) ==
    IF values = <<>> THEN 0
    ELSE LET sorted == SortAscending(values)
             idx == Min(Len(sorted) - 1, Max(0, (p * Len(sorted)) \div 100))
         IN sorted[idx + 1]

\* the keys of `grouped`: the (route, provider) pairs of the records
groupsOf(log) == {<<log[i].route, log[i].provider>> : i \in 1..Len(log)}

\* existing.latencies of a group after the loop over the records
latenciesOf(log, group) ==
    LET InGroup(record) == <<record.route, record.provider>> = group
        members == SelectSeq(log, InGroup)
    IN SubSeq([i \in 1..Len(members) |-> members[i].latencyMs], 1, Len(members))

\* providerMetrics of getObservabilitySnapshot, by group: the count and the
\* 95th percentile of the latencies (whole milliseconds, which Math.round
\* leaves as they are)
DEFAULT_RECENT_LIMIT == 100

\* Math.min(Math.max(x, 1), 500) of x = Math.floor(limit): Math.max and
\* Math.min of NaN are NaN
cappedLimitOf(floored) ==
    CASE floored.k = "nan" -> NaN
      [] floored.k = "inf" -> Fin(500)
      [] OTHER -> Fin(Min(Max(floored.n, 1), 500))

\* records.slice(-cappedLimit): -NaN is NaN, which slice takes for 0
sliceLast(log, cappedLimit) ==
    IF cappedLimit.k = "nan" THEN log
    ELSE SubSeq(log, Max(1, Len(log) - cappedLimit.n + 1), Len(log))

\* Array.prototype.reverse
Reversed(items) ==
    SubSeq([i \in 1..Len(items) |-> items[Len(items) + 1 - i]], 1, Len(items))

\* records.slice(-cappedLimit).reverse()
recentOf(log, floored) == Reversed(sliceLast(log, cappedLimitOf(floored)))

\* recent.filter(status === "error").slice(0, 30).map(...)
recentErrorsOf(recent) ==
    LET Failed(record) == record.status = "error"
        failed == SelectSeq(recent, Failed)
        kept == SubSeq(failed, 1, Min(Len(failed), 30))
    IN SubSeq([i \in 1..Len(kept) |->
                  [requestId |-> kept[i].requestId, route |-> kept[i].route,
                   provider |-> kept[i].provider, error |-> kept[i].error,
                   latencyMs |-> kept[i].latencyMs, at |-> kept[i].at]],
              1, Len(kept))

\* getObservabilitySnapshot(limit), `floored` being Math.floor(limit)
getObservabilitySnapshot(log, floored) ==
    [totalRecords |-> Len(log),
     providerMetrics |->
        [group \in groupsOf(log) |->
            [route |-> group[1], provider |-> group[2],
             count |-> Len(latenciesOf(log, group)),
             p95LatencyMs |-> percentile(latenciesOf(log, group), 95)]],
     recentErrors |-> recentErrorsOf(recentOf(log, floored)),
     recentCalls |-> recentOf(log, floored)]

\* Math.floor(Number(limitRaw ?? "100")) of the observability route
flooredLimit(raw) ==
    CASE raw.form = "absent" -> Fin(100)
      [] raw.form \in {"int", "half"} -> Fin(raw.n)
      [] raw.form = "empty" -> Fin(0)
      [] raw.form = "infinity" -> Infinity
      [] OTHER -> NaN

MissingKeyReason(provider) ==
    CASE provider = "finnhub" -> Msg(<<"FINNHUB_API_KEY missing">>, 23)
      [] provider = "twelvedata" -> Msg(<<"TWELVEDATA_API_KEY missing">>, 26)
      [] OTHER -> Msg(<<"ALPHAVANTAGE_API_KEY missing">>, 28)

\* createRequestId(prefix): the prefix, the clock and six random characters
RandomTails == {"k3f9x2"}
createRequestId(prefix, at, rand) == <<prefix, at, rand>>

----------------------------------------------------------------------------
(* What fetch() and res.json() deliver *)

\* HTTP statuses the upstreams answer with
OkStatus == "200"
Statuses == {"200", "429"}

\* fetch() rejected: a transport error, thrown as TypeError("fetch failed")
NetError == [net |-> "error", status |-> "000", json |-> [shape |-> "null"]]
FetchFailed == Msg(<<"fetch failed">>, 12)
\* fetch() resolved with a status and a body
Http(status, json) == [net |-> "ok", status |-> status, json |-> json]

\* res.json().catch(() => null): a body that is no JSON, or the literal null
BodyNull == [shape |-> "null"]
\* a JSON body that is a number, a string or a boolean
BodyScalar == [shape |-> "scalar"]

\* messages an upstream puts into its error / message / Note field
ShortUpstreamMessage == Msg(<<"Rate limit exceeded">>, 19)
LongUpstreamMessage == Msg(<<"Thank you for using our API ...">>, 350)
UpstreamMessages == {ShortUpstreamMessage, LongUpstreamMessage}
NoMessage == Msg(<<>>, 0)

----------------------------------------------------------------------------
(* Quote adapters: src/app/api/stocks/[symbol]/route.ts, lines 1-130 *)

STOCKS_ROUTE == <<"/api/stocks/[symbol]">>

toNum(value, fallback) ==
    LET n == Number(value) IN IF IsFinite(n) THEN n.n ELSE fallback

\* nowSec() at the instant `at`
nowSec(at) == at \div 1000

normalizeFinnhubQuote(raw, at) ==
    [c |-> toNum(raw.c, 0),
     d |-> toNum(raw.d, 0),
     dp |-> toNum(raw.dp, 0),
     h |-> toNum(raw.h, 0),
     l |-> toNum(raw.l, 0),
     o |-> toNum(raw.o, 0),
     pc |-> toNum(raw.pc, 0),
     t |-> toNum(raw.t, nowSec(at))]

\* String(raw.percent_change ?? "").replace("%", "").trim(), as a JSON value:
\* an absent value becomes the empty string (Number("") is 0), a "<numeral>%"
\* loses its percent sign
percentRaw(v) ==
    CASE v.j = "undef" -> JNum(0)
      [] v.j = "null" -> JNum(0)
      [] v.j = "strpct" -> JStrNum(v.n)
      [] OTHER -> v

normalizeTwelveDataQuote(raw, at) ==
    [c |-> toNum(raw.close, 0),
     d |-> toNum(raw.change, 0),
     dp |-> toNum(percentRaw(raw.percent_change), 0),
     h |-> toNum(raw.high, 0),
     l |-> toNum(raw.low, 0),
     o |-> toNum(raw.open, 0),
     pc |-> toNum(raw.previous_close, 0),
     t |-> toNum(raw.timestamp, nowSec(at))]

\* after toNum every field is finite, so Number.isFinite(quote.c) is true
hasQuoteDataLoose(quote) == TRUE
hasQuoteData(quote) == quote.c > 0

NoQuote == [c |-> 0, d |-> 0, dp |-> 0, h |-> 0, l |-> 0, o |-> 0, pc |-> 0, t |-> 0]
NoProfile == [shape |-> "none", name |-> <<>>]
Thrown(message) == [ok |-> FALSE, error |-> message, quote |-> NoQuote, profile |-> NoProfile]
Returned(quote, profile) == [ok |-> TRUE, error |-> NoError, quote |-> quote, profile |-> profile]

\* fetchFromFinnhub up to the second fetch: the quote call
finnhubQuoteCall(res, at) ==
    IF res.net = "error" THEN Thrown(FetchFailed)
    ELSE IF res.status # OkStatus \/ res.json.shape # "object"
    THEN Thrown(StatusMsg("Finnhub quote failed (", 22, res.status))
    ELSE IF res.json.error # NoMessage THEN Thrown(res.json.error)
    ELSE LET quote == normalizeFinnhubQuote(res.json, at)
         IN IF ~hasQuoteData(quote)
            THEN Thrown(Msg(<<"Finnhub returned no quote data">>, 30))
            ELSE Returned(quote, NoProfile)

\* fetchFromFinnhub from the second fetch on: the profile call
finnhubProfileCall(quote, res) ==
    IF res.net = "error" THEN Thrown(FetchFailed)
    ELSE Returned(quote,
                  IF res.json.shape = "object"
                  THEN [shape |-> "object", name |-> res.json.name]
                  ELSE [shape |-> "null", name |-> <<>>])

\* raw.name ?? symbol
OrElse(value, fallback) == IF value = Absent THEN fallback ELSE value

fetchFromTwelveData(symbol, res, at) ==
    IF res.net = "error" THEN Thrown(FetchFailed)
    ELSE IF res.status # OkStatus \/ res.json.shape # "object"
    THEN Thrown(StatusMsg("Twelve Data quote failed (", 26, res.status))
    ELSE IF res.json.status = "error"
    THEN Thrown(IF res.json.message = NoMessage
                THEN Msg(<<"Twelve Data quote error">>, 23)
                ELSE res.json.message)
    ELSE LET quote == normalizeTwelveDataQuote(res.json, at)
         IN IF ~hasQuoteData(quote)
            THEN Thrown(Msg(<<"Twelve Data returned no quote data">>, 34))
            ELSE Returned(quote,
                          [shape |-> "object", name |-> OrElse(res.json.name, symbol)])

\* upstream quote bodies
PriceValues ==
    {JNum(18931), JStrNum(18931), JNum(0), JNum(0 - 5), JStrJunk, JUndef, JNull, JHuge}

FinnhubQuoteObject(c, t, error) ==
    [shape |-> "object", c |-> c, d |-> JNum(182), dp |-> JNum(97), h |-> JNum(19010),
     l |-> JNum(18642), o |-> JNum(18715), pc |-> JNum(18749), t |-> t, error |-> error]

\* one response for every branch of the adapter, and every price value
FinnhubQuoteResponses ==
    {NetError, Http("429", BodyNull), Http(OkStatus, BodyScalar)}
    \cup {Http(OkStatus, FinnhubQuoteObject(c, JUndef, NoMessage)) : c \in PriceValues}
    \cup {Http(OkStatus, FinnhubQuoteObject(JNum(18931), JNum(1737072000), NoMessage)),
          Http(OkStatus, FinnhubQuoteObject(JNum(18931), JUndef, LongUpstreamMessage))}

AppleInc == <<"A", "p", "p", "l", "e", " ", "I", "n", "c">>

FinnhubProfileResponses ==
    {NetError, Http("429", BodyNull), Http(OkStatus, BodyNull),
     Http(OkStatus, [shape |-> "object", name |-> AppleInc])}

TwelveDataQuoteObject(close, pct, name, status, message) ==
    [shape |-> "object", close |-> close, change |-> JStrNum(182),
     percent_change |-> pct, high |-> JStrNum(19010), low |-> JStrNum(18642),
     open |-> JStrNum(18715), previous_close |-> JStrNum(18749),
     timestamp |-> JStrNum(1737072000), name |-> name,
     status |-> status, message |-> message]

TwelveDataQuoteResponses ==
    {NetError, Http("429", BodyNull)}
    \cup {Http(OkStatus, TwelveDataQuoteObject(c, JStrPct(97), AppleInc, "ok", NoMessage)) :
            c \in PriceValues}
    \cup {Http(OkStatus, TwelveDataQuoteObject(JStrNum(18931), JUndef, Absent, "ok", NoMessage))}
    \cup {Http(OkStatus, TwelveDataQuoteObject(JUndef, JUndef, Absent, "error", m)) :
            m \in {ShortUpstreamMessage, NoMessage}}

----------------------------------------------------------------------------
(* Request state shared by the handlers *)

EmptyMap == [p \in {} |-> NoError]
\* obj[key] = value on a Record<string, string>
\* an object that forgets its other properties on assignment
SetKeyOnly(obj, key, value) == [p \in {key} |-> value]
SetKey(obj, key, value) == [p \in DOMAIN obj \cup {key} |-> IF p = key THEN value ELSE obj[p]]

NoCandles ==
    [s |-> "none", t |-> <<>>, o |-> <<>>, h |-> <<>>, l |-> <<>>, c |-> <<>>, v |-> <<>>,
     provider |-> "", symbol |-> <<>>, range |-> "none", resolution |-> ""]

\* a response not sent yet
NoResponse ==
    [status |-> 0, error |-> "", provider |-> "", quote |-> NoQuote, profile |-> NoProfile,
     candles |-> NoCandles, result |-> <<>>, providers |-> EmptyMap, symbol |-> <<>>,
     range |-> "none", hasMeta |-> FALSE, requestId |-> <<>>, providerAttempts |-> <<>>,
     cacheHit |-> "absent"]

\* a request slot no request has used yet
IdleRequest ==
    [kind |-> "none", pc |-> "idle", requestId |-> <<>>, symbol |-> <<>>, range |-> "none",
     raw |-> <<>>, rawRange |-> <<>>, query |-> <<>>, limit |-> 0, from |-> 0, to |-> 0, current |-> 0, stage |-> "",
     startedAt |-> 0, held |-> NoQuote, providerAttempts |-> <<>>,
     providerErrors |-> EmptyMap, calls |-> <<>>, answers |-> <<>>, tasks |-> <<>>,
     outcomes |-> EmptyMap, cancelled |-> [is |-> FALSE, answers |-> 0],
     response |-> NoResponse]

\* History kept for the properties: the request after the answer `res` of
\* `provider` has arrived (`calls` lists the fetches issued, `answers` what
\* came back).
Answered(st, provider, res) ==
    [st EXCEPT !.answers = Append(@, [provider |-> provider, res |-> res])]

StocksChain == <<"finnhub", "twelvedata">>
CandlesChainTwelveDataFirst == <<"twelvedata", "finnhub", "alphavantage">>
CandlesChain == <<"finnhub", "twelvedata", "alphavantage">>
CANDLES_ROUTE == <<"/api/candles">>
ChainOf(kind) == IF kind = "stocks" THEN StocksChain ELSE CandlesChain
RouteOf(kind) == IF kind = "stocks" THEN STOCKS_ROUTE ELSE CANDLES_ROUTE

\* NextResponse.json({error, providers, ...}, {status: 502}) of the two chains
UnavailableResponse(st) ==
    [NoResponse EXCEPT
        !.status = 502,
        !.error = IF st.kind = "stocks"
                  THEN "Unable to fetch stock data from configured providers"
                  ELSE "Unable to fetch candle data from configured providers",
        !.symbol = st.symbol,
        !.range = st.range,
        !.providers = st.providerErrors,
        !.hasMeta = TRUE,
        !.requestId = st.requestId,
        !.providerAttempts = st.providerAttempts,
        !.cacheHit = IF st.kind = "stocks" THEN "absent" ELSE "false"]

\* The handler from the `if (<provider>Key)` of provider number i on, up to its
\* next await or its 502: a provider without a key is recorded as skipped, the
\* first one with a key has its attempt begun and its fetch issued.
RECURSIVE advanceChain(_, _, _, _, _)
advanceChain(st, log, keys, i, at) ==
    IF i > Len(ChainOf(st.kind))
    THEN [st |-> [st EXCEPT !.pc = "done", !.current = 0, !.stage = "",
                            !.response = UnavailableResponse(st)],
          log |-> log]
    ELSE LET provider == ChainOf(st.kind)[i]
         IN IF KeyOf(provider) \in keys
            THEN [st |-> [st EXCEPT !.pc = "await", !.current = i, !.stage = "first",
                                    !.startedAt = at,
                                    !.calls = Append(@, provider)],
                  log |-> log]
            ELSE LET reason == MissingKeyReason(provider)
                     attempt == skippedAttempt(provider, reason)
                 IN advanceChain(
                        [st EXCEPT !.providerErrors = SetKey(@, provider, reason),
                                   !.providerAttempts = Append(@, attempt)],
                        appendRecord(log, toRecord(attempt, st.requestId, RouteOf(st.kind), at)),
                        keys, i + 1, at)

\* a handler that gives up at the first failure instead of going on
failProviderNoFallback(st, log, keys, message, at) ==
    LET provider == ChainOf(st.kind)[st.current]
        attempt == completeAttempt(provider, st.startedAt, "error", message, at)
    IN advanceChain(
           [st EXCEPT !.providerErrors = SetKey(@, provider, message),
                      !.providerAttempts = Append(@, attempt),
                      !.held = NoQuote],
           appendRecord(log, toRecord(attempt, st.requestId, RouteOf(st.kind), at)),
           {}, Len(ChainOf(st.kind)) + 1, at)

\* a handler that calls the provider that failed once more
failProviderRetry(st, log, keys, message, at) ==
    LET provider == ChainOf(st.kind)[st.current]
        attempt == completeAttempt(provider, st.startedAt, "error", message, at)
    IN advanceChain(
           [st EXCEPT !.providerErrors = SetKey(@, provider, message),
                      !.providerAttempts = Append(@, attempt),
                      !.held = NoQuote],
           appendRecord(log, toRecord(attempt, st.requestId, RouteOf(st.kind), at)),
           keys, st.current, at)

\* The catch block of the provider being awaited, and the handler after it.
failProvider(st, log, keys, message, at) ==
    LET provider == ChainOf(st.kind)[st.current]
        attempt == completeAttempt(provider, st.startedAt, "error", message, at)
    IN advanceChain(
           [st EXCEPT !.providerErrors = SetKey(@, provider, message),
                      !.providerAttempts = Append(@, attempt),
                      !.held = NoQuote],
           appendRecord(log, toRecord(attempt, st.requestId, RouteOf(st.kind), at)),
           keys, st.current + 1, at)

----------------------------------------------------------------------------
(* GET /stocks/{symbol}: src/app/api/stocks/[symbol]/route.ts, lines 132-237 *)

\* params.symbol as the router delivers it
RawSymbols == {Absent, <<>>, <<" ">>, <<" ", "a", " ">>}

MissingSymbolResponse(requestId, kind) ==
    [NoResponse EXCEPT !.status = 400, !.error = "Missing symbol", !.hasMeta = TRUE,
                       !.requestId = requestId, !.providerAttempts = <<>>]

\* requests are numbered in the order they arrive
CanStart(r) == req[r].pc = "idle" /\ (IF r = 1 THEN TRUE ELSE req[r - 1].pc # "idle")

StocksGET(r, rawSymbol, rand) ==
    /\ CanStart(r)
    /\ LET requestId == createRequestId("stocks", now, rand)
           symbol == ToUpperCase(Trim(OrEmpty(rawSymbol)))
           st == [IdleRequest EXCEPT !.kind = "stocks", !.requestId = requestId,
                                     !.raw = rawSymbol, !.symbol = symbol]
       IN IF symbol = <<>>
          THEN /\ req' = [req EXCEPT ![r] =
                            [st EXCEPT !.pc = "done",
                                       !.response = MissingSymbolResponse(requestId, "stocks")]]
               /\ UNCHANGED records
          ELSE LET next == advanceChain(st, records, env, 1, now)
               IN /\ req' = [req EXCEPT ![r] = next.st]
                  /\ records' = next.log
    /\ UNCHANGED <<now, ticks, env, cache, lookups, call>>

\* NextResponse.json({...payload, meta}) of the quote handler
StocksOkResponse(st, provider, out, attempts) ==
    [NoResponse EXCEPT !.status = 200, !.provider = provider, !.quote = out.quote,
                       !.profile = out.profile, !.hasMeta = TRUE,
                       !.requestId = st.requestId, !.providerAttempts = attempts]

\* the try block after a quote adapter has returned its payload
StocksSucceed(r, st, out) ==
    LET provider == StocksChain[st.current]
        attempt == completeAttempt(provider, st.startedAt, "ok", NoError, now)
        attempts == Append(st.providerAttempts, attempt)
    IN /\ records' = appendRecord(records, toRecord(attempt, st.requestId, STOCKS_ROUTE, now))
       /\ req' = [req EXCEPT ![r] =
                    [st EXCEPT !.pc = "done", !.current = 0, !.stage = "", !.held = NoQuote,
                               !.providerAttempts = attempts,
                               !.response = StocksOkResponse(st, provider, out, attempts)]]

\* the catch block after a quote adapter has thrown
StocksFail(r, st, message) ==
    LET next == failProvider(st, records, env, message, now)
    IN /\ req' = [req EXCEPT ![r] = next.st]
       /\ records' = next.log

\* the quote call of fetchFromFinnhub settles
StocksFinnhubQuote(r, res) ==
    /\ req[r].kind = "stocks" /\ req[r].pc = "await"
    /\ StocksChain[req[r].current] = "finnhub" /\ req[r].stage = "first"
    /\ LET st == Answered(req[r], "finnhub", res)
           out == finnhubQuoteCall(res, now)
       IN IF out.ok
          THEN /\ req' = [req EXCEPT ![r] =
                            [st EXCEPT !.stage = "profile", !.held = out.quote,
                                       !.calls = Append(@, "finnhub")]]
               /\ UNCHANGED records
          ELSE StocksFail(r, st, out.error)
    /\ UNCHANGED <<now, ticks, env, cache, lookups, call>>

\* the profile call of fetchFromFinnhub settles
StocksFinnhubProfile(r, res) ==
    /\ req[r].kind = "stocks" /\ req[r].pc = "await"
    /\ StocksChain[req[r].current] = "finnhub" /\ req[r].stage = "profile"
    /\ LET st == Answered(req[r], "finnhub", res)
           out == finnhubProfileCall(st.held, res)
       IN IF out.ok THEN StocksSucceed(r, st, out) ELSE StocksFail(r, st, out.error)
    /\ UNCHANGED <<now, ticks, env, cache, lookups, call>>

\* the call of fetchFromTwelveData settles
StocksTwelveData(r, res) ==
    /\ req[r].kind = "stocks" /\ req[r].pc = "await"
    /\ StocksChain[req[r].current] = "twelvedata"
    /\ LET st == Answered(req[r], "twelvedata", res)
           out == fetchFromTwelveData(st.symbol, res, now)
       IN IF out.ok THEN StocksSucceed(r, st, out) ELSE StocksFail(r, st, out.error)
    /\ UNCHANGED <<now, ticks, env, cache, lookups, call>>

----------------------------------------------------------------------------
(* Candle adapters: src/app/api/stocks/[symbol]/route.ts, lines 984-1349 *)

RangeKeys == {"24H", "1W", "1M", "3M", "6M", "1Y", "5Y"}

\* RANGE_ALIASES[normalized] ?? "3M"
RANGE_ALIASES(normalized) ==
    CASE normalized = <<"2", "4", "H">> -> "24H"
      [] normalized = <<"1", "D">> -> "24H"
      [] normalized = <<"3", "H">> -> "24H"
      [] normalized = <<"1", "W">> -> "1W"
      [] normalized = <<"1", "M">> -> "1M"
      [] normalized = <<"3", "M">> -> "3M"
      [] normalized = <<"6", "M">> -> "6M"
      [] normalized = <<"1", "Y">> -> "1Y"
      [] normalized = <<"Y", "T", "D">> -> "1Y"
      [] normalized = <<"5", "Y">> -> "5Y"
      [] OTHER -> "3M"

\* a parser that takes the letters of the parameter as they come
parseRangeCaseSensitive(raw) ==
    RANGE_ALIASES(Trim(IF raw = Absent THEN <<"3", "M">> ELSE raw))

parseRange(raw) ==
    RANGE_ALIASES(ToUpperCase(Trim(IF raw = Absent THEN <<"3", "M">> ELSE raw)))

DAY == 24 * 60 * 60

\* a window whose month has 31 days
rangeToFromLongMonth(range, to) ==
    CASE range = "24H" -> to - DAY
      [] range = "1W" -> to - 7 * DAY
      [] range = "1M" -> to - 31 * DAY
      [] range = "3M" -> to - 90 * DAY
      [] range = "6M" -> to - 180 * DAY
      [] range = "1Y" -> to - 365 * DAY
      [] range = "5Y" -> to - 5 * 365 * DAY
      [] OTHER -> to - 90 * DAY

rangeToFrom(range, to) ==
    CASE range = "24H" -> to - DAY
      [] range = "1W" -> to - 7 * DAY
      [] range = "1M" -> to - 30 * DAY
      [] range = "3M" -> to - 90 * DAY
      [] range = "6M" -> to - 180 * DAY
      [] range = "1Y" -> to - 365 * DAY
      [] range = "5Y" -> to - 5 * 365 * DAY
      [] OTHER -> to - 90 * DAY

finnhubResolution(range) ==
    CASE range = "24H" -> "5"
      [] range = "1W" -> "30"
      [] range = "1M" -> "60"
      [] range \in {"3M", "6M", "1Y"} -> "D"
      [] range = "5Y" -> "W"
      [] OTHER -> "D"

twelveDataInterval(range) ==
    CASE range = "24H" -> "5min"
      [] range = "1W" -> "30min"
      [] range = "1M" -> "1h"
      [] range \in {"3M", "6M", "1Y"} -> "1day"
      [] range = "5Y" -> "1week"
      [] OTHER -> "1day"

ttlSeconds(range) ==
    IF range = "24H" THEN 20
    ELSE IF range = "1W" THEN 45
    ELSE IF range = "1M" THEN 60
    ELSE 180

\* rows.map((r) => r.<field>)
Column(rows, field) == [i \in 1..Len(rows) |-> rows[i][field]]

toPayload(rows, provider, symbol, range, resolution) ==
    [s |-> "ok",
     t |-> Column(rows, "t"), o |-> Column(rows, "o"), h |-> Column(rows, "h"),
     l |-> Column(rows, "l"), c |-> Column(rows, "c"), v |-> Column(rows, "v"),
     provider |-> provider, symbol |-> symbol, range |-> range, resolution |-> resolution]

\* Array.prototype.sort((a, b) => a.t - b.t): stable, ascending in t; the rows
\* it is given have passed the filter, so every t is finite
RECURSIVE InsertByTime(_, _)
InsertByTime(sorted, row) ==
    IF sorted = <<>> THEN <<row>>
    ELSE IF Head(sorted).t.n <= row.t.n
    THEN <<Head(sorted)>> \o InsertByTime(Tail(sorted), row)
    ELSE <<row>> \o sorted

RECURSIVE SortByTime(_)
SortByTime(rows) ==
    IF rows = <<>> THEN <<>>
    ELSE InsertByTime(SortByTime(SubSeq(rows, 1, Len(rows) - 1)), rows[Len(rows)])

\* the predicate of the filter of normalizeRows
RowUsableNoVolumeCheck(r, from, to) ==
    /\ IsFinite(r.t) /\ IsFinite(r.o) /\ IsFinite(r.h) /\ IsFinite(r.l) /\ IsFinite(r.c)
    /\ r.t.n >= from /\ r.t.n <= to
RowUsableNoUpperBound(r, from, to) ==
    /\ IsFinite(r.t) /\ IsFinite(r.o) /\ IsFinite(r.h) /\ IsFinite(r.l) /\ IsFinite(r.c)
    /\ IsFinite(r.v)
    /\ r.t.n >= from
RowUsable(r, from, to) ==
    /\ IsFinite(r.t) /\ IsFinite(r.o) /\ IsFinite(r.h) /\ IsFinite(r.l) /\ IsFinite(r.c)
    /\ IsFinite(r.v)
    /\ r.t.n >= from /\ r.t.n <= to

normalizeRows(rows, from, to) ==
    LET Keep(r) == RowUsable(r, from, to) IN SortByTime(SelectSeq(rows, Keep))

\* A datetime string "YYYY-MM-DD" or "YYYY-MM-DD HH:MM:SS" is the record of the
\* day it names (days since the epoch) and, when it has a time part, the second
\* of that day; BadDate is a string new Date() cannot parse (the empty string
\* that String(v.datetime ?? "") gives for an absent datetime among them).
DateOnly(day) == [form |-> "date", day |-> day, sec |-> 0]
DateTime(day, sec) == [form |-> "datetime", day |-> day, sec |-> sec]
BadDate == [form |-> "bad", day |-> 0, sec |-> 0]

\* Math.floor(new Date(iso).getTime() / 1000)
parseTimestamp(value) ==
    CASE value.form = "datetime" -> Fin(value.day * DAY + value.sec)
      [] value.form = "date" -> Fin(value.day * DAY)
      [] OTHER -> NaN

\* the row pushed for index i of the parallel arrays of a Finnhub body
Zip(body, i, hasV) ==
    [t |-> Number(body.t[i]), o |-> Number(body.o[i]), h |-> Number(body.h[i]),
     l |-> Number(body.l[i]), c |-> Number(body.c[i]),
     v |-> IF hasV THEN Number(body.v[i]) ELSE Fin(0)]

MinOf(ns) == CHOOSE n \in ns : \A m \in ns : n <= m

parseFinnhubRows(data) ==
    IF data.shape # "object" THEN <<>>
    ELSE IF data.s # "ok" THEN <<>>
    ELSE IF ~data.arrays THEN <<>>
    ELSE LET len == MinOf({Len(data.t), Len(data.o), Len(data.h), Len(data.l), Len(data.c)}
                          \cup (IF data.hasV THEN {Len(data.v)} ELSE {}))
         IN [i \in 1..len |-> Zip(data, i, data.hasV)]

CandleThrown(message) == [ok |-> FALSE, error |-> message, payload |-> NoCandles]
CandleReturned(payload) == [ok |-> TRUE, error |-> NoError, payload |-> payload]

fetchFinnhubCandles(symbol, range, from, to, res) ==
    IF res.net = "error" THEN CandleThrown(FetchFailed)
    ELSE IF res.status # OkStatus
    THEN CandleThrown(IF res.json.shape = "object" /\ res.json.error # NoMessage
                      THEN res.json.error
                      ELSE StatusMsg("Finnhub candles failed (", 24, res.status))
    ELSE LET rows == normalizeRows(parseFinnhubRows(res.json), from, to)
         IN IF rows = <<>>
            THEN CandleThrown(Msg(<<"Finnhub returned no data for selected range">>, 43))
            ELSE CandleReturned(toPayload(rows, "finnhub", symbol, range,
                                          finnhubResolution(range)))

\* Number(v.volume ?? 0)
OrZero(value) == IF value.j \in {"undef", "null"} THEN JNum(0) ELSE value

twelveDataRow(v) ==
    [t |-> parseTimestamp(v.datetime), o |-> Number(v.open), h |-> Number(v.high),
     l |-> Number(v.low), c |-> Number(v.close), v |-> Number(OrZero(v.volume))]

parseTwelveDataRows(data) ==
    IF data.shape # "object" THEN <<>>
    ELSE IF data.status = "error" THEN <<>>
    ELSE IF ~data.arrays THEN <<>>
    ELSE [i \in 1..Len(data.values) |-> twelveDataRow(data.values[i])]

fetchTwelveDataCandles(symbol, range, from, to, res) ==
    IF res.net = "error" THEN CandleThrown(FetchFailed)
    ELSE IF res.status # OkStatus \/ res.json.shape = "null"
    THEN CandleThrown(StatusMsg("Twelve Data candles failed (", 28, res.status))
    ELSE IF res.json.shape = "object" /\ res.json.status = "error"
    THEN CandleThrown(IF res.json.message = NoMessage
                      THEN Msg(<<"Twelve Data error">>, 17)
                      ELSE res.json.message)
    ELSE LET rows == normalizeRows(parseTwelveDataRows(res.json), from, to)
         IN IF rows = <<>>
            THEN CandleThrown(Msg(<<"Twelve Data returned no data for selected range">>, 47))
            ELSE CandleReturned(toPayload(rows, "twelvedata", symbol, range,
                                          twelveDataInterval(range)))

alphaConfig(range) ==
    CASE range = "24H" -> [fn |-> "TIME_SERIES_INTRADAY", interval |-> "5min", outputsize |-> "compact"]
      [] range = "1W" -> [fn |-> "TIME_SERIES_INTRADAY", interval |-> "30min", outputsize |-> "compact"]
      [] range = "1M" -> [fn |-> "TIME_SERIES_INTRADAY", interval |-> "60min", outputsize |-> "full"]
      [] range = "3M" -> [fn |-> "TIME_SERIES_DAILY_ADJUSTED", interval |-> "", outputsize |-> "compact"]
      [] range \in {"6M", "1Y"} -> [fn |-> "TIME_SERIES_DAILY_ADJUSTED", interval |-> "", outputsize |-> "full"]
      [] range = "5Y" -> [fn |-> "TIME_SERIES_WEEKLY_ADJUSTED", interval |-> "", outputsize |-> "full"]
      [] OTHER -> [fn |-> "TIME_SERIES_DAILY_ADJUSTED", interval |-> "", outputsize |-> "compact"]

\* a reader that looks for the daily series whatever the range
alphaSeriesKeyDaily(range) == <<"Time Series (Daily)">>

\* the key of the body parseAlphaRows reads the series from
alphaSeriesKey(range) ==
    LET cfg == alphaConfig(range)
    IN IF cfg.fn = "TIME_SERIES_INTRADAY" THEN <<"Time Series (", cfg.interval, ")">>
       ELSE IF cfg.fn = "TIME_SERIES_WEEKLY_ADJUSTED" THEN <<"Weekly Adjusted Time Series">>
       ELSE <<"Time Series (Daily)">>

\* row["6. volume"] ?? row["5. volume"] ?? 0
alphaVolume(row) ==
    IF row.volume6.j \notin {"undef", "null"} THEN row.volume6 ELSE OrZero(row.volume5)

alphaRow(row) ==
    [t |-> parseTimestamp(row.ts), o |-> Number(row.open), h |-> Number(row.high),
     l |-> Number(row.low), c |-> Number(row.close), v |-> Number(alphaVolume(row))]

\* the rows parseAlphaRows returns, or the message of the error it throws
parseAlphaRows(data, range) ==
    IF data.shape # "object"
    THEN [ok |-> FALSE, error |-> Msg(<<"Alpha Vantage: empty response">>, 29), rows |-> <<>>]
    ELSE IF data.Note # NoMessage THEN [ok |-> FALSE, error |-> data.Note, rows |-> <<>>]
    ELSE IF data.Error_Message # NoMessage
    THEN [ok |-> FALSE, error |-> data.Error_Message, rows |-> <<>>]
    ELSE IF data.seriesKey # alphaSeriesKey(range)
    THEN [ok |-> FALSE, error |-> Msg(<<"Alpha Vantage: no time series data">>, 34), rows |-> <<>>]
    ELSE [ok |-> TRUE, error |-> NoError,
          rows |-> [i \in 1..Len(data.series) |-> alphaRow(data.series[i])]]

alphaResolution(range) ==
    LET cfg == alphaConfig(range)
    IN IF cfg.fn = "TIME_SERIES_WEEKLY_ADJUSTED" THEN "W"
       ELSE IF cfg.fn = "TIME_SERIES_INTRADAY" THEN cfg.interval
       ELSE "D"

fetchAlphaVantageCandles(symbol, range, from, to, res) ==
    IF res.net = "error" THEN CandleThrown(FetchFailed)
    ELSE IF res.status # OkStatus \/ res.json.shape = "null"
    THEN CandleThrown(StatusMsg("Alpha Vantage candles failed (", 30, res.status))
    ELSE LET parsed == parseAlphaRows(res.json, range)
         IN IF ~parsed.ok THEN CandleThrown(parsed.error)
            ELSE LET rows == normalizeRows(parsed.rows, from, to)
                 IN IF rows = <<>>
                    THEN CandleThrown(
                             Msg(<<"Alpha Vantage returned no data for selected range">>, 49))
                    ELSE CandleReturned(toPayload(rows, "alphavantage", symbol, range,
                                                  alphaResolution(range)))

----------------------------------------------------------------------------
(* GET /candles: src/app/api/stocks/[symbol]/route.ts, lines 1351-1514 *)

\* new Map<string, CacheEntry>()
EmptyCache == [key \in {} |-> [expires |-> 0, payload |-> NoCandles]]

\* `${symbol}|${range}`: a range holds no "|", so the key is the pair
cacheKeyOf(symbol, range) == <<symbol, range>>

\* a lookup that serves expired entries only
cacheFreshReversed(store, key, at) == key \in DOMAIN store /\ store[key].expires < at
\* cached && cached.expires > Date.now()
cacheFreshInclusive(store, key, at) == key \in DOMAIN store /\ store[key].expires >= at
cacheFresh(store, key, at) == key \in DOMAIN store /\ store[key].expires > at

\* cache.set(cacheKey, {expires: Date.now() + ttlSeconds(range) * 1000, payload})
\* a cache that forgets its other entries on a write
cacheSetAlone(store, key, payload, range, at) ==
    [k \in {key} |-> [expires |-> at + ttlSeconds(range) * 1000, payload |-> payload]]

\* a cache that keeps the entry it has
cacheSetKeepFirst(store, key, payload, range, at) ==
    [k \in DOMAIN store \cup {key} |->
        IF k \in DOMAIN store THEN store[k]
        ELSE [expires |-> at + ttlSeconds(range) * 1000, payload |-> payload]]

cacheSet(store, key, payload, range, at) ==
    [k \in DOMAIN store \cup {key} |->
        IF k = key THEN [expires |-> at + ttlSeconds(range) * 1000, payload |-> payload]
        ELSE store[k]]

\* NextResponse.json({...payload, meta: {requestId, providerAttempts, cacheHit}})
CandlesOkResponse(st, payload, attempts, cacheHit) ==
    [NoResponse EXCEPT !.status = 200, !.candles = payload, !.provider = payload.provider,
                       !.symbol = payload.symbol, !.range = payload.range, !.hasMeta = TRUE,
                       !.requestId = st.requestId, !.providerAttempts = attempts,
                       !.cacheHit = cacheHit]

\* an entry of the history of cache lookups and writes
Lookup(r, op, key, payload, expires) ==
    [slot |-> r, op |-> op, key |-> key, payload |-> payload, expires |-> expires, at |-> now]

CandlesGET(r, rawSymbol, rawRange, rand) ==
    /\ CanStart(r)
    /\ LET requestId == createRequestId("candles", now, rand)
           symbol == ToUpperCase(Trim(OrEmpty(rawSymbol)))
           range == parseRange(rawRange)
           key == cacheKeyOf(symbol, range)
           to == nowSec(now)
           st == [IdleRequest EXCEPT !.kind = "candles", !.requestId = requestId,
                                     !.raw = rawSymbol, !.rawRange = rawRange,
                                     !.symbol = symbol, !.range = range]
       IN IF symbol = <<>>
          THEN /\ req' = [req EXCEPT ![r] =
                            [st EXCEPT !.pc = "done",
                                       !.response = MissingSymbolResponse(requestId, "candles")]]
               /\ UNCHANGED <<records, lookups>>
          ELSE IF cacheFresh(cache, key, now)
          THEN /\ req' = [req EXCEPT ![r] =
                            [st EXCEPT !.pc = "done",
                                       !.response = CandlesOkResponse(
                                            st, cache[key].payload, <<>>, "true")]]
               /\ lookups' = Append(lookups, Lookup(r, "hit", key, cache[key].payload,
                                                    cache[key].expires))
               /\ UNCHANGED records
          ELSE LET next == advanceChain([st EXCEPT !.to = to, !.from = rangeToFrom(range, to)],
                                        records, env, 1, now)
               IN /\ req' = [req EXCEPT ![r] = next.st]
                  /\ records' = next.log
                  /\ lookups' = Append(lookups, Lookup(r, "miss", key, NoCandles, 0))
    /\ UNCHANGED <<now, ticks, env, cache, call>>

\* the adapter of the provider being awaited
candleAdapter(provider, st, res) ==
    CASE provider = "finnhub" -> fetchFinnhubCandles(st.symbol, st.range, st.from, st.to, res)
      [] provider = "twelvedata" -> fetchTwelveDataCandles(st.symbol, st.range, st.from, st.to, res)
      [] OTHER -> fetchAlphaVantageCandles(st.symbol, st.range, st.from, st.to, res)

\* The call of a candle adapter settles: the try block (cache.set, the ok
\* attempt, the 200 response) or the catch block and the rest of the chain.
CandlesSettle(r, provider, res) ==
    /\ req[r].kind = "candles" /\ req[r].pc = "await"
    /\ CandlesChain[req[r].current] = provider
    /\ LET st == Answered(req[r], provider, res)
           out == candleAdapter(provider, st, res)
           key == cacheKeyOf(st.symbol, st.range)
       IN IF out.ok
          THEN LET attempt == completeAttempt(provider, st.startedAt, "ok", NoError, now)
                   attempts == Append(st.providerAttempts, attempt)
                   store == cacheSet(cache, key, out.payload, st.range, now)
               IN /\ cache' = store
                  /\ lookups' = Append(lookups, Lookup(r, "set", key, out.payload,
                                                       store[key].expires))
                  /\ records' = appendRecord(records,
                                             toRecord(attempt, st.requestId, CANDLES_ROUTE, now))
                  /\ req' = [req EXCEPT ![r] =
                               [st EXCEPT !.pc = "done", !.current = 0, !.stage = "",
                                          !.providerAttempts = attempts,
                                          !.response = CandlesOkResponse(
                                               st, out.payload, attempts, "false")]]
          ELSE LET next == failProvider(st, records, env, out.error, now)
               IN /\ req' = [req EXCEPT ![r] = next.st]
                  /\ records' = next.log
                  /\ UNCHANGED <<cache, lookups>>
    /\ UNCHANGED <<now, ticks, env, call>>

CandlesFinnhub(r, res) == CandlesSettle(r, "finnhub", res)
CandlesTwelveData(r, res) == CandlesSettle(r, "twelvedata", res)
CandlesAlphaVantage(r, res) == CandlesSettle(r, "alphavantage", res)

----------------------------------------------------------------------------
(* Search ranker: src/app/api/stocks/[symbol]/route.ts, lines 250-627 *)

SEARCH_ROUTE == <<"/api/search">>

BLOCKED_TYPE_HINTS ==
    {<<"f", "o", "r", "e", "x">>, <<"c", "u", "r", "r", "e", "n", "c", "y">>, <<"c", "r", "y", "p", "t", "o">>, <<"i", "n", "d", "e", "x">>, <<"f", "u", "t", "u", "r", "e">>, <<"o", "p", "t", "i", "o", "n">>, <<"b", "o", "n", "d">>,
     <<"w", "a", "r", "r", "a", "n", "t">>, <<"c", "f", "d">>}

LOW_PRIORITY_HINTS ==
    {<<"l", "e", "v", "e", "r", "a", "g", "e", "d">>, <<"i", "n", "v", "e", "r", "s", "e">>, <<"u", "l", "t", "r", "a">>, <<"s", "h", "o", "r", "t">>, <<"3", "x">>, <<"2", "x">>, <<"-", "1", "x">>, <<"-", "2", "x">>,
     <<"d", "a", "i", "l", "y", " ", "x">>, <<"d", "a", "i", "l", "y", " ", "s", "h", "o", "r", "t">>}

\* PREFERRED_EXCHANGE_BONUS[ex] ?? 22
PREFERRED_EXCHANGE_BONUS(ex) ==
    CASE ex = <<"N", "A", "S", "D", "A", "Q">> -> 62
      [] ex = <<"N", "Y", "S", "E">> -> 60
      [] ex = <<"A", "M", "E", "X">> -> 52
      [] ex = <<"X", "E", "T", "R">> -> 48
      [] ex = <<"L", "S", "E">> -> 46
      [] ex = <<"E", "U", "R", "O", "N", "E", "X", "T">> -> 45
      [] ex = <<"S", "I", "X">> -> 44
      [] ex = <<"T", "S", "E">> -> 43
      [] ex = <<"H", "K", "E", "X">> -> 42
      [] ex \in {<<"S", "S", "E">>, <<"S", "Z", "S", "E">>} -> 40
      [] ex \in {<<"N", "S", "E">>, <<"B", "S", "E">>} -> 39
      [] ex \in {<<"T", "S", "X">>, <<"A", "S", "X">>} -> 38
      [] OTHER -> 22

CORPORATE_SUFFIXES ==
    {<<"i", "n", "c">>, <<"i", "n", "c", "o", "r", "p", "o", "r", "a", "t", "e", "d">>, <<"c", "o", "r", "p">>, <<"c", "o", "r", "p", "o", "r", "a", "t", "i", "o", "n">>, <<"c", "o">>, <<"c", "o", "m", "p", "a", "n", "y">>, <<"g", "r", "o", "u", "p">>,
     <<"h", "o", "l", "d", "i", "n", "g", "s">>, <<"h", "o", "l", "d", "i", "n", "g">>, <<"l", "i", "m", "i", "t", "e", "d">>, <<"l", "t", "d">>, <<"p", "l", "c">>, <<"a", "g">>, <<"s", "a">>, <<"n", "v">>,
     <<"s", "e">>, <<"s", "p", "a">>, <<"s", "r", "l">>, <<"l", "l", "c">>, <<"p", "t", "e">>, <<"t", "h", "e">>}

POPULAR_STOCK_HINTS ==
    <<[symbol |-> <<"A", "A", "P", "L">>, aliases |-> <<<<"a", "p", "p", "l", "e">>, <<"a", "p", "p", "l", "e", " ", "i", "n", "c">>>>],
      [symbol |-> <<"M", "S", "F", "T">>,
       aliases |-> <<<<"m", "i", "c", "r", "o", "s", "o", "f", "t">>, <<"m", "i", "c", "r", "o", "s", "o", "f", "t", " ", "c", "o", "r", "p">>, <<"m", "i", "c", "r", "o", "s", "o", "f", "t", " ", "c", "o", "r", "p", "o", "r", "a", "t", "i", "o", "n">>>>],
      [symbol |-> <<"G", "O", "O", "G", "L">>, aliases |-> <<<<"g", "o", "o", "g", "l", "e">>, <<"a", "l", "p", "h", "a", "b", "e", "t">>, <<"a", "l", "p", "h", "a", "b", "e", "t", " ", "i", "n", "c">>>>],
      [symbol |-> <<"A", "M", "Z", "N">>, aliases |-> <<<<"a", "m", "a", "z", "o", "n">>, <<"a", "m", "a", "z", "o", "n", " ", "c", "o", "m">>, <<"a", "m", "a", "z", "o", "n", ".", "c", "o", "m">>>>],
      [symbol |-> <<"N", "V", "D", "A">>,
       aliases |-> <<<<"n", "v", "i", "d", "i", "a">>, <<"n", "v", "i", "d", "i", "a", " ", "c", "o", "r", "p">>, <<"n", "v", "i", "d", "i", "a", " ", "c", "o", "r", "p", "o", "r", "a", "t", "i", "o", "n">>>>],
      [symbol |-> <<"T", "S", "L", "A">>, aliases |-> <<<<"t", "e", "s", "l", "a">>, <<"t", "e", "s", "l", "a", " ", "i", "n", "c">>>>],
      [symbol |-> <<"M", "E", "T", "A">>, aliases |-> <<<<"m", "e", "t", "a">>, <<"m", "e", "t", "a", " ", "p", "l", "a", "t", "f", "o", "r", "m", "s">>, <<"f", "a", "c", "e", "b", "o", "o", "k">>>>],
      [symbol |-> <<"N", "F", "L", "X">>, aliases |-> <<<<"n", "e", "t", "f", "l", "i", "x">>>>],
      [symbol |-> <<"B", "R", "K", ".", "B">>, aliases |-> <<<<"b", "e", "r", "k", "s", "h", "i", "r", "e">>, <<"b", "e", "r", "k", "s", "h", "i", "r", "e", " ", "h", "a", "t", "h", "a", "w", "a", "y">>>>],
      [symbol |-> <<"J", "P", "M">>, aliases |-> <<<<"j", "p", "m", "o", "r", "g", "a", "n">>, <<"j", "p", "m", "o", "r", "g", "a", "n", " ", "c", "h", "a", "s", "e">>>>]>>

\* a query taken as it comes
cleanQueryUntrimmed(raw) == OrEmpty(raw)
\* (raw ?? "").trim()
cleanQuery(raw) == Trim(OrEmpty(raw))

\* The limit parameter as the URL delivers it: absent, or a string that is a
\* decimal numeral of an integer ("int"), of an integer and a half ("half"),
\* the empty string, "Infinity", or no numeral at all.
LimitInt(n) == [form |-> "int", n |-> n]
LimitHalf(n) == [form |-> "half", n |-> n]
LimitEmpty == [form |-> "empty", n |-> 0]
LimitInfinity == [form |-> "infinity", n |-> 0]
LimitJunk == [form |-> "junk", n |-> 0]
LimitAbsent == [form |-> "absent", n |-> 0]

\* Number(raw ?? "10"), floored where it is finite
parseLimit(raw) ==
    CASE raw.form = "absent" -> 10
      [] raw.form = "int" -> Min(Max(raw.n, 1), 25)
      [] raw.form = "half" -> Min(Max(raw.n, 1), 25)
      [] raw.form = "empty" -> Min(Max(0, 1), 25)
      [] OTHER -> 10

\* .normalize("NFKD").replace(/[\u0300-\u036f]/g, ""): an accented letter
\* becomes its base letter
StripMarks(s) ==
    SubSeq([i \in 1..Len(s) |->
               CASE s[i] = EAcute -> "e"
                 [] s[i] = CapitalEAcute -> "E"
                 [] OTHER -> s[i]],
           1, Len(s))

\* .replace(/[^a-z0-9]+/g, " "): `inRun` says that the character before was
\* replaced already
RECURSIVE CollapseOthers(_, _)
CollapseOthers(s, inRun) ==
    IF s = <<>> THEN <<>>
    ELSE IF IsLower(Head(s)) \/ IsDigit(Head(s))
    THEN <<Head(s)>> \o CollapseOthers(Tail(s), FALSE)
    ELSE IF inRun THEN CollapseOthers(Tail(s), TRUE)
    ELSE <<Space>> \o CollapseOthers(Tail(s), TRUE)

normalizeText(value) == Trim(CollapseOthers(ToLowerCase(StripMarks(value)), FALSE))

normalizeExchange(value) == ToUpperCase(Trim(value))

\* .replace(/\s+/g, "")
WithoutWhiteSpace(s) == LET Solid(ch) == ~IsBlank(ch) IN SelectSeq(s, Solid)

sanitizeSymbol(value) ==
    LET symbol == ToUpperCase(Trim(value))
    IN IF symbol = <<>> THEN <<>>
       ELSE WithoutWhiteSpace(
                IF Includes(symbol, <<":">>)
                THEN SubSeq(symbol, LastIndexOf(symbol, ":") + 1, Len(symbol))
                ELSE symbol)

symbolBase(symbol) == Split(sanitizeSymbol(symbol), ".")[1]

\* /^[A-Z0-9]{1,6}(\.[A-Z0-9]{1,4})?$/
IsTickerPart(s, most) ==
    /\ Len(s) >= 1 /\ Len(s) <= most
    /\ \A i \in 1..Len(s) : IsUpper(s[i]) \/ IsDigit(s[i])

\* a ticker of at most four characters before the dot
isTickerLikeQueryFour(query) ==
    LET q == ToUpperCase(Trim(query))
        parts == Split(q, ".")
    IN \/ Len(parts) = 1 /\ IsTickerPart(parts[1], 4)
       \/ Len(parts) = 2 /\ IsTickerPart(parts[1], 4) /\ IsTickerPart(parts[2], 4)

isTickerLikeQuery(query) ==
    LET q == ToUpperCase(Trim(query))
        parts == Split(q, ".")
    IN \/ Len(parts) = 1 /\ IsTickerPart(parts[1], 6)
       \/ Len(parts) = 2 /\ IsTickerPart(parts[1], 6) /\ IsTickerPart(parts[2], 4)

stockTypeAllowed(type, description) ==
    LET t == normalizeText(type)
        d == normalizeText(description)
    IN IF t = <<>> THEN ~\E hint \in BLOCKED_TYPE_HINTS : Includes(d, hint)
       ELSE IF \E hint \in BLOCKED_TYPE_HINTS : Includes(t, hint) THEN FALSE
       ELSE \E word \in {<<"s", "t", "o", "c", "k">>, <<"e", "q", "u", "i", "t", "y">>, <<"s", "h", "a", "r", "e">>, <<"a", "d", "r">>, <<"e", "t", "f">>, <<"e", "t", "p">>,
                         <<"r", "e", "i", "t">>} :
               Includes(t, word)

\* a name that keeps its corporate suffixes
DropSuffixesNone(tokens) == tokens
\* tokens.pop() while the last token is a corporate suffix
RECURSIVE DropSuffixes(_)
DropSuffixes(tokens) ==
    IF tokens # <<>> /\ tokens[Len(tokens)] \in CORPORATE_SUFFIXES
    THEN DropSuffixes(SubSeq(tokens, 1, Len(tokens) - 1))
    ELSE tokens

normalizeCompanyName(description) ==
    LET normalized == normalizeText(description)
    IN IF normalized = <<>> THEN <<>>
       ELSE JoinWords(DropSuffixes(NonEmpty(Split(normalized, Space))))

\* `name:${byName}` or `symbol:${symbolBase(symbol)}`
makeCompanyKey(description, symbol) ==
    LET byName == normalizeCompanyName(description)
    IN IF Len(byName) >= 3 THEN [by |-> "name", text |-> byName]
       ELSE [by |-> "symbol", text |-> symbolBase(symbol)]

exchangeBonus(exchange) ==
    LET ex == normalizeExchange(exchange)
    IN IF ex = <<>> THEN 0 ELSE PREFERRED_EXCHANGE_BONUS(ex)

\* the boost one alias of a hint gives, and the greatest over the aliases of
\* the hints whose symbol has the base of the item's
AliasBoost(alias, queryNorm) ==
    LET normalizedAlias == normalizeText(alias)
    IN IF normalizedAlias = <<>> THEN 0
       ELSE IF normalizedAlias = queryNorm THEN 1400
       ELSE IF StartsWith(normalizedAlias, queryNorm) /\ Len(queryNorm) >= 2 THEN 980
       ELSE IF StartsWith(queryNorm, normalizedAlias) /\ Len(normalizedAlias) >= 3 THEN 520
       ELSE 0

MaxOf(ns) == CHOOSE n \in ns : \A m \in ns : m <= n

popularHintBoost(item, queryNorm) ==
    IF queryNorm = <<>> \/ Len(queryNorm) < 2 THEN 0
    ELSE LET base == symbolBase(item.symbol)
             hints == {h \in 1..Len(POPULAR_STOCK_HINTS) :
                          symbolBase(POPULAR_STOCK_HINTS[h].symbol) = base}
         IN MaxOf({0} \cup UNION {{AliasBoost(POPULAR_STOCK_HINTS[h].aliases[k], queryNorm) :
                                      k \in 1..Len(POPULAR_STOCK_HINTS[h].aliases)} :
                                   h \in hints})

\* the part of the score the description earns against the query
DescriptionScore(desc, descWords, qNorm, qWords) ==
    LET wholeWordMatch == \E i \in 1..Len(descWords) : descWords[i] = qNorm
        wordPrefixMatch ==
            Len(qNorm) >= 3 /\ \E i \in 1..Len(descWords) : StartsWith(descWords[i], qNorm)
        allWordsMatch ==
            \A k \in 1..Len(qWords) :
                \E i \in 1..Len(descWords) : StartsWith(descWords[i], qWords[k])
    IN (IF desc = qNorm THEN 980 ELSE 0)
       + (IF desc = qNorm \/ StartsWith(desc, qNorm \o <<Space>>) THEN 760
          ELSE IF StartsWith(desc, qNorm) /\ Len(qNorm) >= 3 THEN 620
          ELSE 0)
       + (IF wholeWordMatch THEN 300 ELSE 0)
       + (IF wordPrefixMatch THEN 170 ELSE 0)
       + (IF Len(qWords) > 1
          THEN IF allWordsMatch THEN 520
               ELSE IF \E k \in 1..Len(qWords) : Includes(desc, qWords[k]) THEN 120
               ELSE 0
          ELSE 0)
       - (IF ~wholeWordMatch /\ ~wordPrefixMatch /\ Len(qNorm) >= 4 /\ Includes(desc, qNorm)
          THEN 220 ELSE 0)

scoreCandidate(item, query) ==
    LET qUpper == ToUpperCase(Trim(query))
        qNorm == normalizeText(query)
        symbol == item.symbol
        display == ToUpperCase(item.displaySymbol)
        desc == normalizeText(item.description)
        descWords == NonEmpty(Split(desc, Space))
        qWords == NonEmpty(Split(qNorm, Space))
        typeNorm == normalizeText(item.type)
        nameLength == Len(descWords)
        lowPriorityText == typeNorm \o <<Space>> \o desc
    IN (IF symbol = qUpper \/ display = qUpper THEN 1500
        ELSE IF StartsWith(symbol, qUpper) \/ StartsWith(display, qUpper) THEN 1050
        ELSE IF symbolBase(symbol) = qUpper THEN 980
        ELSE IF (Includes(symbol, qUpper) \/ Includes(display, qUpper)) /\ Len(qUpper) >= 2
        THEN 500
        ELSE 0)
       + DescriptionScore(desc, descWords, qNorm, qWords)
       + exchangeBonus(item.exchange)
       + (IF item.provider = "finnhub" THEN 26 ELSE 18)
       + popularHintBoost(item, qNorm)
       + (IF Includes(typeNorm, <<"c", "o", "m", "m", "o", "n", " ", "s", "t", "o", "c", "k">>) THEN 35 ELSE 0)
       + (IF Includes(typeNorm, <<"s", "t", "o", "c", "k">>) THEN 18 ELSE 0)
       + (IF Includes(typeNorm, <<"a", "d", "r">>) THEN 8 ELSE 0)
       + (IF Includes(symbol, <<".">>) THEN 4 ELSE 0)
       - (IF nameLength > 6 THEN (nameLength - 6) * 18 ELSE 0)
       - (IF nameLength > 10 THEN 35 ELSE 0)
       - (IF \E hint \in LOW_PRIORITY_HINTS : Includes(lowPriorityText, hint) THEN 420 ELSE 0)

\* the separator of `${base} · ${ex}`: a middle dot between two spaces
MiddleDot == "<middle-dot>"

formatType(type, exchange) ==
    LET base == IF Trim(type) = <<>> THEN <<"s", "t", "o", "c", "k">> ELSE Trim(type)
        ex == normalizeExchange(exchange)
    IN IF ex # <<>> THEN base \o <<Space, MiddleDot, Space>> \o ex ELSE base

\* sanitizeCandidate: `ok` is false where the function returns null
sanitizeCandidate(item) ==
    LET symbol == sanitizeSymbol(item.symbol)
        description == Trim(item.description)
        shown == sanitizeSymbol(IF item.displaySymbol # <<>> THEN item.displaySymbol
                                ELSE symbol)
        displaySymbol == IF shown # <<>> THEN shown ELSE symbol
        type == IF Trim(item.type) = <<>> THEN <<"s", "t", "o", "c", "k">> ELSE Trim(item.type)
        exchange == normalizeExchange(item.exchange)
    IN [ok |-> /\ symbol # <<>> /\ description # <<>>
               /\ ~Includes(symbol, <<"/">>)
               /\ stockTypeAllowed(type, description),
        item |-> [symbol |-> symbol, displaySymbol |-> displaySymbol,
                  description |-> description, type |-> type, exchange |-> exchange,
                  provider |-> item.provider]]

\* Array.prototype.sort((a, b) => b.score - a.score): stable, descending
RECURSIVE InsertByScore(_, _)
InsertByScore(sorted, item) ==
    IF sorted = <<>> THEN <<item>>
    ELSE IF Head(sorted).score >= item.score
    THEN <<Head(sorted)>> \o InsertByScore(Tail(sorted), item)
    ELSE <<item>> \o sorted

\* a ranker that leaves the candidates in the order they came in
SortByScoreNone(items) == items

RECURSIVE SortByScore(_)
SortByScore(items) ==
    IF items = <<>> THEN <<>>
    ELSE InsertByScore(SortByScore(SubSeq(items, 1, Len(items) - 1)), items[Len(items)])

\* Array.prototype.slice(0, n)
Take(items, n) == SubSeq(items, 1, Min(Len(items), n))

\* a cutoff that never falls back to the plain top of the list
applyScoreCutoffNoFallback(sorted, query, limit) ==
    IF Len(sorted) = 0 THEN <<>>
    ELSE IF Len(sorted) = 1 THEN sorted
    ELSE LET topScore == sorted[1].score
             lead == topScore - sorted[2].score
             tickerQuery == isTickerLikeQuery(query)
             minScore == IF tickerQuery THEN Max(topScore - 520, 90)
                         ELSE Max(topScore - 340, 180)
             Sharp(item) == item.score >= topScore - 160
             Good(item) == item.score >= minScore
         IN IF ~tickerQuery /\ lead >= 500 THEN Take(SelectSeq(sorted, Sharp), limit)
            ELSE Take(SelectSeq(sorted, Good), limit)

applyScoreCutoff(sorted, query, limit) ==
    IF Len(sorted) = 0 THEN <<>>
    ELSE IF Len(sorted) = 1 THEN sorted
    ELSE LET topScore == sorted[1].score
             secondScore == sorted[2].score
             lead == topScore - secondScore
             tickerQuery == isTickerLikeQuery(query)
             minScore == IF tickerQuery THEN Max(topScore - 520, 90)
                         ELSE Max(topScore - 340, 180)
             Sharp(item) == item.score >= topScore - 160
             Good(item) == item.score >= minScore
             filtered == SelectSeq(sorted, Good)
         IN IF ~tickerQuery /\ lead >= 500 THEN Take(SelectSeq(sorted, Sharp), limit)
            ELSE IF Len(filtered) >= Min(limit, 3) THEN Take(filtered, limit)
            ELSE Take(sorted, limit)

\* a ranker that keeps every candidate of a company
ByCompanyKeepAll(ranked, values) == ranked
\* byCompany after the loop over `ranked`, as the sequence of its values: a
\* Map keeps a key at the place of its first insertion
RECURSIVE ByCompany(_, _)
ByCompany(ranked, values) ==
    IF ranked = <<>> THEN values
    ELSE LET item == Head(ranked)
             held == {i \in 1..Len(values) : values[i].companyKey = item.companyKey}
         IN IF held = {}
            THEN ByCompany(Tail(ranked), Append(values, item))
            ELSE LET i == CHOOSE x \in held : TRUE
                 IN IF item.score > values[i].score
                    THEN ByCompany(Tail(ranked), [values EXCEPT ![i] = item])
                    ELSE ByCompany(Tail(ranked), values)

\* a loop that never looks at the symbols it has put out
UniqueBySymbolKeepAll(items, output, limit) ==
    [i \in 1..Min(Len(items), limit) |->
        [symbol |-> items[i].symbol,
         displaySymbol |-> IF items[i].displaySymbol # <<>>
                           THEN items[i].displaySymbol ELSE items[i].symbol,
         description |-> items[i].description,
         type |-> formatType(items[i].type, items[i].exchange)]]
\* the loop that fills `output`
RECURSIVE UniqueBySymbol(_, _, _)
UniqueBySymbol(items, output, limit) ==
    IF items = <<>> \/ (output # <<>> /\ Len(output) >= limit) THEN output
    ELSE LET item == Head(items)
         IN IF \E i \in 1..Len(output) : output[i].symbol = item.symbol
            THEN UniqueBySymbol(Tail(items), output, limit)
            ELSE UniqueBySymbol(
                     Tail(items),
                     Append(output,
                            [symbol |-> item.symbol,
                             displaySymbol |-> IF item.displaySymbol # <<>>
                                               THEN item.displaySymbol ELSE item.symbol,
                             description |-> item.description,
                             type |-> formatType(item.type, item.exchange)]),
                     limit)

\* candidates with their score and company key, best first
Ranked(candidates, query) ==
    SortByScore(SubSeq([i \in 1..Len(candidates) |->
                   [symbol |-> candidates[i].symbol,
                    displaySymbol |-> candidates[i].displaySymbol,
                    description |-> candidates[i].description,
                    type |-> candidates[i].type,
                    exchange |-> candidates[i].exchange,
                    provider |-> candidates[i].provider,
                    score |-> scoreCandidate(candidates[i], query),
                    companyKey |-> makeCompanyKey(candidates[i].description,
                                                  candidates[i].symbol)]],
                       1, Len(candidates)))

rankAndDeduplicate(candidates, query, limit) ==
    LET ranked == Ranked(candidates, query)
        dedupedByCompany == SortByScore(ByCompany(ranked, <<>>))
        filteredByQuality == applyScoreCutoff(dedupedByCompany, query, limit)
    IN UniqueBySymbol(filteredByQuality, <<>>, limit)

----------------------------------------------------------------------------
(* Search adapters and GET /search: src/app/api/stocks/[symbol]/route.ts,
   lines 629-830 *)

SearchThrown(message) == [ok |-> FALSE, error |-> message, items |-> <<>>]
SearchReturned(items) == [ok |-> TRUE, error |-> NoError, items |-> items]

finnhubCandidate(row) ==
    [symbol |-> row.symbol,
     displaySymbol |-> OrElse(row.displaySymbol, row.symbol),
     description |-> row.description,
     type |-> OrElse(row.type, <<"s", "t", "o", "c", "k">>),
     exchange |-> OrElse(row.exchange, OrElse(row.mic, OrElse(row.micCode, <<>>))),
     provider |-> "finnhub"]

searchFinnhub(query, res) ==
    IF res.net = "error" THEN SearchThrown(FetchFailed)
    ELSE IF res.status # OkStatus
    THEN SearchThrown(IF res.json.shape = "object" /\ res.json.error # NoMessage
                      THEN res.json.error
                      ELSE StatusMsg("Finnhub search failed (", 23, res.status))
    ELSE LET rows == IF res.json.shape = "object" /\ res.json.isArray
                     THEN res.json.result ELSE <<>>
             Strings(row) == ~row.isNull /\ row.symbol # Absent /\ row.description # Absent
             kept == SelectSeq(rows, Strings)
         IN SearchReturned([i \in 1..Len(kept) |-> finnhubCandidate(kept[i])])

twelveDataCandidate(row) ==
    [symbol |-> OrElse(row.symbol, <<>>),
     displaySymbol |-> OrElse(row.symbol, <<>>),
     description |-> OrElse(row.instrument_name, OrElse(row.name, OrElse(row.symbol, <<>>))),
     type |-> OrElse(row.type, OrElse(row.instrument_type, <<"s", "t", "o", "c", "k">>)),
     exchange |-> OrElse(row.exchange, OrElse(row.mic_code, <<>>)),
     provider |-> "twelvedata"]

searchTwelveData(query, res) ==
    IF res.net = "error" THEN SearchThrown(FetchFailed)
    ELSE IF res.status # OkStatus \/ res.json.shape = "null"
    THEN SearchThrown(StatusMsg("Twelve Data search failed (", 27, res.status))
    ELSE IF res.json.shape = "object" /\ res.json.status = "error"
    THEN SearchThrown(IF res.json.message = NoMessage
                      THEN Msg(<<"Twelve Data search failed">>, 25)
                      ELSE res.json.message)
    ELSE LET rows == IF res.json.shape = "object" /\ res.json.isArray
                     THEN res.json.data ELSE <<>>
         IN IF \E i \in 1..Len(rows) : rows[i].isNull
            THEN SearchThrown(Msg(<<"Cannot read properties of null (reading 'symbol')">>, 49))
            ELSE SearchReturned([i \in 1..Len(rows) |-> twelveDataCandidate(rows[i])])

SearchChain == <<"finnhub", "twelvedata">>

\* NextResponse.json({result: []}) for an empty query
EmptyQueryResponse == [NoResponse EXCEPT !.status = 200, !.result = <<>>]

\* the provider-failure payload of the search handler
SearchUnavailableResponse(st, attempts, errors) ==
    [NoResponse EXCEPT !.status = 502, !.result = <<>>,
                       !.error = "Search provider unavailable", !.providers = errors,
                       !.hasMeta = TRUE, !.requestId = st.requestId,
                       !.providerAttempts = attempts]

SearchOkResponse(st, result, attempts) ==
    [NoResponse EXCEPT !.status = 200, !.result = result, !.hasMeta = TRUE,
                       !.requestId = st.requestId, !.providerAttempts = attempts]

\* a handler that starts the first provider with a key and no other
RECURSIVE startSearchFirstOnly(_, _, _, _, _)
startSearchFirstOnly(st, log, keys, i, at) ==
    IF i > Len(SearchChain) THEN [st |-> st, log |-> log]
    ELSE LET provider == SearchChain[i]
         IN IF KeyOf(provider) \in keys
            THEN [st |-> [st EXCEPT !.tasks = Append(@, provider),
                                    !.calls = Append(@, provider),
                                    !.startedAt = at],
                  log |-> log]
            ELSE LET reason == MissingKeyReason(provider)
                     attempt == skippedAttempt(provider, reason)
                 IN startSearchFirstOnly(
                        [st EXCEPT !.providerErrors = SetKey(@, provider, reason),
                                   !.providerAttempts = Append(@, attempt)],
                        appendRecord(log, toRecord(attempt, st.requestId, SEARCH_ROUTE, at)),
                        keys, i + 1, at)

\* The two `if (<provider>Key)` blocks: a provider with a key has its attempt
\* begun and its adapter started, one without is recorded as skipped.
RECURSIVE startSearch(_, _, _, _, _)
startSearch(st, log, keys, i, at) ==
    IF i > Len(SearchChain) THEN [st |-> st, log |-> log]
    ELSE LET provider == SearchChain[i]
         IN IF KeyOf(provider) \in keys
            THEN startSearch([st EXCEPT !.tasks = Append(@, provider),
                                        !.calls = Append(@, provider),
                                        !.startedAt = at],
                             log, keys, i + 1, at)
            ELSE LET reason == MissingKeyReason(provider)
                     attempt == skippedAttempt(provider, reason)
                 IN startSearch(
                        [st EXCEPT !.providerErrors = SetKey(@, provider, reason),
                                   !.providerAttempts = Append(@, attempt)],
                        appendRecord(log, toRecord(attempt, st.requestId, SEARCH_ROUTE, at)),
                        keys, i + 1, at)

SearchGET(r, rawQuery, rawLimit, rand) ==
    /\ CanStart(r)
    /\ LET query == cleanQuery(rawQuery)
           limit == parseLimit(rawLimit)
           requestId == createRequestId("search", now, rand)
           st == [IdleRequest EXCEPT !.kind = "search", !.raw = rawQuery, !.query = query,
                                     !.limit = limit]
       IN IF query = <<>>
          THEN /\ req' = [req EXCEPT ![r] = [st EXCEPT !.pc = "done",
                                                       !.response = EmptyQueryResponse]]
               /\ UNCHANGED records
          ELSE LET next == startSearch([st EXCEPT !.requestId = requestId], records, env, 1, now)
               IN /\ records' = next.log
                  /\ req' = [req EXCEPT ![r] =
                               IF next.st.tasks = <<>>
                               THEN [next.st EXCEPT
                                        !.pc = "done",
                                        !.response = SearchUnavailableResponse(
                                             next.st, next.st.providerAttempts,
                                             next.st.providerErrors)]
                               ELSE [next.st EXCEPT !.pc = "await"]]
    /\ UNCHANGED <<now, ticks, env, cache, lookups, call>>

\* the candidates of the tasks that succeeded, in the order of `settled`
RECURSIVE allCandidates(_, _)
allCandidates(tasks, outcomes) ==
    IF tasks = <<>> THEN <<>>
    ELSE (IF outcomes[Head(tasks)].ok THEN outcomes[Head(tasks)].items ELSE <<>>)
         \o allCandidates(Tail(tasks), outcomes)

\* providerErrors after the loop over `settled`
RECURSIVE settledErrors(_, _, _)
settledErrors(tasks, outcomes, errors) ==
    IF tasks = <<>> THEN errors
    ELSE settledErrors(Tail(tasks), outcomes,
                       IF outcomes[Head(tasks)].ok THEN errors
                       ELSE SetKey(errors, Head(tasks), outcomes[Head(tasks)].error))

\* a handler that takes an empty result for a failure
searchSucceededNonEmpty(result, providerSucceeded) == Len(result) > 0
\* result.length > 0 || providerSucceeded
searchSucceeded(result, providerSucceeded) == Len(result) > 0 \/ providerSucceeded

\* a handler that takes the settled tasks in the order of their arrival
finishSearchArrivalOrder(st) ==
    LET arrived == SubSeq([i \in 1..Len(st.answers) |-> st.answers[i].provider],
                          1, Len(st.answers))
        attempts == st.providerAttempts
                    \o [i \in 1..Len(arrived) |-> st.outcomes[arrived[i]].attempt]
        providerSucceeded == \E i \in 1..Len(arrived) : st.outcomes[arrived[i]].ok
        errors == settledErrors(arrived, st.outcomes, st.providerErrors)
        cleaned == [i \in 1..Len(allCandidates(arrived, st.outcomes)) |->
                      sanitizeCandidate(allCandidates(arrived, st.outcomes)[i])]
        Passed(c) == c.ok
        sanitized == [i \in 1..Len(SelectSeq(cleaned, Passed)) |->
                        SelectSeq(cleaned, Passed)[i].item]
        result == rankAndDeduplicate(sanitized, st.query, st.limit)
    IN [st EXCEPT !.pc = "done",
                  !.providerAttempts = attempts,
                  !.providerErrors = errors,
                  !.response = IF searchSucceeded(result, providerSucceeded)
                               THEN SearchOkResponse(st, result, attempts)
                               ELSE SearchUnavailableResponse(st, attempts, errors)]

\* the handler after `await Promise.all(tasks)`
finishSearch(st) ==
    LET attempts == st.providerAttempts
                    \o [i \in 1..Len(st.tasks) |-> st.outcomes[st.tasks[i]].attempt]
        providerSucceeded == \E i \in 1..Len(st.tasks) : st.outcomes[st.tasks[i]].ok
        errors == settledErrors(st.tasks, st.outcomes, st.providerErrors)
        cleaned == [i \in 1..Len(allCandidates(st.tasks, st.outcomes)) |->
                      sanitizeCandidate(allCandidates(st.tasks, st.outcomes)[i])]
        Passed(c) == c.ok
        sanitized == [i \in 1..Len(SelectSeq(cleaned, Passed)) |->
                        SelectSeq(cleaned, Passed)[i].item]
        result == rankAndDeduplicate(sanitized, st.query, st.limit)
    IN [st EXCEPT !.pc = "done",
                  !.providerAttempts = attempts,
                  !.providerErrors = errors,
                  !.response = IF searchSucceeded(result, providerSucceeded)
                               THEN SearchOkResponse(st, result, attempts)
                               ELSE SearchUnavailableResponse(st, attempts, errors)]

\* The call of a search adapter settles: its .then or .catch completes the
\* attempt; when it is the last of the request, Promise.all resolves and the
\* handler runs to its response.
SearchSettle(r, provider, res) ==
    /\ req[r].kind = "search" /\ req[r].pc = "await"
    /\ \E i \in 1..Len(req[r].tasks) : req[r].tasks[i] = provider
    /\ provider \notin DOMAIN req[r].outcomes
    /\ LET st == Answered(req[r], provider, res)
           out == IF provider = "finnhub" THEN searchFinnhub(st.query, res)
                  ELSE searchTwelveData(st.query, res)
           attempt == completeAttempt(provider, st.startedAt,
                                      IF out.ok THEN "ok" ELSE "error", out.error, now)
           settled == [st EXCEPT !.outcomes =
                          SetKey(@, provider, [ok |-> out.ok, items |-> out.items,
                                               error |-> out.error, attempt |-> attempt])]
       IN /\ records' = appendRecord(records,
                                     toRecord(attempt, st.requestId, SEARCH_ROUTE, now))
          /\ req' = [req EXCEPT ![r] =
                       IF DOMAIN settled.outcomes = {settled.tasks[i] : i \in 1..Len(settled.tasks)}
                       THEN finishSearch(settled)
                       ELSE settled]
    /\ UNCHANGED <<now, ticks, env, cache, lookups, call>>

\* The client of a search request goes away while the request waits for its
\* adapters. The handler never reads req.signal and the adapters pass no
\* signal to fetch, so nothing of the request changes; `cancelled` keeps the
\* number of answers it had received by then.
SearchCancel(r) ==
    /\ req[r].kind = "search" /\ req[r].pc = "await"
    /\ ~req[r].cancelled.is
    /\ req' = [req EXCEPT ![r].cancelled = [is |-> TRUE, answers |-> Len(req[r].answers)]]
    /\ UNCHANGED <<now, ticks, env, records, cache, lookups, call>>

SearchFinnhub(r, res) == SearchSettle(r, "finnhub", res)
SearchTwelveData(r, res) == SearchSettle(r, "twelvedata", res)

----------------------------------------------------------------------------
(* Upstream candle bodies the model draws from *)

CandleFields == {"o", "h", "l", "c", "v"}

\* A row before its encoding by a provider: where its instant lies (one second
\* before the window, at its first second, at its last second, one second
\* after it), the form of its timestamp and the field that holds no number
\* ("none": every field holds one).
GoodRows == {[pos |-> p, form |-> "datetime", bad |-> "none"] :
                p \in {"before", "first", "last", "after"}}
BrokenRows == {[pos |-> "last", form |-> "datetime", bad |-> b] : b \in {"t"} \cup CandleFields}
DateRows == {[pos |-> "last", form |-> "date", bad |-> "none"]}

\* the instant of a row for the window [from, to]
InstantOf(row, from, to) ==
    CASE row.pos = "before" -> from - 1
      [] row.pos = "first" -> from
      [] row.pos = "last" -> to
      [] OTHER -> to + 1

FieldNumber(field) ==
    CASE field = "o" -> 10010
      [] field = "h" -> 10300
      [] field = "l" -> 9980
      [] field = "c" -> 10240
      [] OTHER -> 1234567

\* the JSON value of a field of a row: a number (Finnhub) or a numeral in a
\* string (Twelve Data, Alpha Vantage), or a string that is no numeral
FieldValue(row, field, asString) ==
    IF row.bad = field THEN JStrJunk
    ELSE IF asString THEN JStrNum(FieldNumber(field)) ELSE JNum(FieldNumber(field))

\* the datetime string of a row: a date alone names the midnight of the day
\* the instant lies in
TimeString(row, from, to) ==
    LET at == InstantOf(row, from, to)
    IN IF row.bad = "t" THEN BadDate
       ELSE IF row.form = "date" THEN DateOnly(at \div DAY)
       ELSE DateTime(at \div DAY, at % DAY)

FinnhubCandleObject(status, rows, from, to, hasV, shortC, error) ==
    [shape |-> "object", s |-> status, arrays |-> TRUE, hasV |-> hasV, error |-> error,
     t |-> [i \in 1..Len(rows) |->
              IF rows[i].bad = "t" THEN JStrJunk ELSE JNum(InstantOf(rows[i], from, to))],
     o |-> [i \in 1..Len(rows) |-> FieldValue(rows[i], "o", FALSE)],
     h |-> [i \in 1..Len(rows) |-> FieldValue(rows[i], "h", FALSE)],
     l |-> [i \in 1..Len(rows) |-> FieldValue(rows[i], "l", FALSE)],
     c |-> [i \in 1..(IF shortC /\ Len(rows) > 0 THEN Len(rows) - 1 ELSE Len(rows)) |->
              FieldValue(rows[i], "c", FALSE)],
     v |-> IF hasV THEN [i \in 1..Len(rows) |-> FieldValue(rows[i], "v", FALSE)] ELSE <<>>]

\* Finnhub answers that carry no rows
FinnhubCandleFailures ==
    {NetError, Http("429", BodyNull), Http(OkStatus, BodyNull),
     Http("429", FinnhubCandleObject("", <<>>, 0, 0, FALSE, FALSE, LongUpstreamMessage)),
     Http(OkStatus, FinnhubCandleObject("no_data", <<>>, 0, 0, FALSE, FALSE, NoMessage)),
     Http(OkStatus, [FinnhubCandleObject("ok", <<>>, 0, 0, FALSE, FALSE, NoMessage)
                        EXCEPT !.arrays = FALSE])}

\* the shapes of a Finnhub body with rows: all six arrays; no v array, with
\* the c array one entry short
FinnhubShapes == {"full", "ragged"}
FinnhubCandleBody(rows, shape, from, to) ==
    Http(OkStatus, FinnhubCandleObject("ok", rows, from, to, shape = "full", shape = "ragged",
                                       NoMessage))

TwelveDataValue(row, from, to, hasVolume) ==
    [datetime |-> TimeString(row, from, to),
     open |-> FieldValue(row, "o", TRUE), high |-> FieldValue(row, "h", TRUE),
     low |-> FieldValue(row, "l", TRUE), close |-> FieldValue(row, "c", TRUE),
     volume |-> IF hasVolume THEN FieldValue(row, "v", TRUE) ELSE JUndef]

TwelveDataCandleObject(status, message, arrays, rows, from, to, hasVolume) ==
    [shape |-> "object", status |-> status, message |-> message, arrays |-> arrays,
     values |-> [i \in 1..Len(rows) |-> TwelveDataValue(rows[i], from, to, hasVolume)]]

\* Twelve Data answers that carry no rows
TwelveDataCandleFailures ==
    {NetError, Http("429", BodyNull), Http(OkStatus, BodyScalar),
     Http(OkStatus, TwelveDataCandleObject("error", ShortUpstreamMessage, FALSE, <<>>, 0, 0, TRUE)),
     Http(OkStatus, TwelveDataCandleObject("error", NoMessage, FALSE, <<>>, 0, 0, TRUE)),
     Http(OkStatus, TwelveDataCandleObject("ok", NoMessage, FALSE, <<>>, 0, 0, TRUE))}

TwelveDataCandleBody(rows, hasVolume, from, to) ==
    Http(OkStatus, TwelveDataCandleObject("ok", NoMessage, TRUE, rows, from, to, hasVolume))

AlphaSeriesRow(row, from, to, volumeKey) ==
    [ts |-> TimeString(row, from, to),
     open |-> FieldValue(row, "o", TRUE), high |-> FieldValue(row, "h", TRUE),
     low |-> FieldValue(row, "l", TRUE), close |-> FieldValue(row, "c", TRUE),
     volume6 |-> IF volumeKey = "6" THEN FieldValue(row, "v", TRUE) ELSE JUndef,
     volume5 |-> IF volumeKey = "5" THEN FieldValue(row, "v", TRUE) ELSE JUndef]

AlphaObject(note, errorMessage, seriesKey, rows, from, to, volumeKey) ==
    [shape |-> "object", Note |-> note, Error_Message |-> errorMessage,
     seriesKey |-> seriesKey,
     series |-> [i \in 1..Len(rows) |-> AlphaSeriesRow(rows[i], from, to, volumeKey)]]

\* Alpha Vantage answers that carry no rows
AlphaVantageFailures ==
    {NetError, Http("429", BodyNull), Http(OkStatus, BodyScalar),
     Http(OkStatus, AlphaObject(LongUpstreamMessage, NoMessage, <<>>, <<>>, 0, 0, "6")),
     Http(OkStatus, AlphaObject(NoMessage, ShortUpstreamMessage, <<>>, <<>>, 0, 0, "6")),
     Http(OkStatus, AlphaObject(NoMessage, NoMessage, <<>>, <<>>, 0, 0, "6"))}

\* the series of a body is an object: its keys are distinct strings
DistinctKeys(rows, from, to) ==
    \A i, j \in 1..Len(rows) :
        i # j => TimeString(rows[i], from, to) # TimeString(rows[j], from, to)

\* the name Alpha Vantage gives the series it returns for the function and
\* interval a request of `range` asks for
AlphaSeriesNamed(range) ==
    CASE range = "24H" -> <<"Time Series (", "5min", ")">>
      [] range = "1W" -> <<"Time Series (", "30min", ")">>
      [] range = "1M" -> <<"Time Series (", "60min", ")">>
      [] range = "5Y" -> <<"Weekly Adjusted Time Series">>
      [] OTHER -> <<"Time Series (Daily)">>

\* the series of `keyRange`, which may not be the range asked for
AlphaVantageBody(rows, volumeKey, keyRange, from, to) ==
    Http(OkStatus, AlphaObject(NoMessage, NoMessage, AlphaSeriesNamed(keyRange), rows, from, to,
                               volumeKey))

\* the range parameter as the URL delivers it
RawRanges == {Absent, <<" ", "1", "d">>, <<"w", "e", "e", "k">>}

----------------------------------------------------------------------------
(* Upstream search bodies the model draws from *)

\* a row of Finnhub's result array; Absent is a property that is missing
FinnhubSearchRow(symbol, displaySymbol, description, type) ==
    [isNull |-> FALSE, symbol |-> symbol, displaySymbol |-> displaySymbol,
     description |-> description, type |-> type, exchange |-> Absent, mic |-> Absent,
     micCode |-> Absent]
NullRow ==
    [isNull |-> TRUE, symbol |-> Absent, displaySymbol |-> Absent, description |-> Absent,
     type |-> Absent, exchange |-> Absent, mic |-> Absent, micCode |-> Absent]

FinnhubApple == FinnhubSearchRow(<<"A", "A", "P", "L">>, <<"A", "A", "P", "L">>, <<"A", "p", "p", "l", "e", " ", "I", "n", "c">>, <<"C", "o", "m", "m", "o", "n", " ", "S", "t", "o", "c", "k">>)
FinnhubPineapple == FinnhubSearchRow(<<"p", "n", "p", "l">>, Absent, <<"P", "i", "n", "e", "a", "p", "p", "l", "e", " ", "E", "n", "e", "r", "g", "y", " ", "I", "n", "c">>, Absent)
FinnhubForex == FinnhubSearchRow(<<"O", "A", "N", "D", "A", ":", "E", "U", "R", "/", "U", "S", "D">>, <<"E", "U", "R", "/", "U", "S", "D">>, <<"E", "u", "r", "o", " ", "U", "S", " ", "D", "o", "l", "l", "a", "r">>, <<"F", "o", "r", "e", "x">>)
FinnhubNoSymbol == FinnhubSearchRow(Absent, Absent, <<"A", "p", "p", "l", "e", " ", "I", "n", "c">>, <<"C", "o", "m", "m", "o", "n", " ", "S", "t", "o", "c", "k">>)

FinnhubSearchObject(error, isArray, rows) ==
    [shape |-> "object", error |-> error, isArray |-> isArray, result |-> rows]

\* the result arrays Finnhub answers with
FinnhubSearchResults ==
    {<<>>, <<FinnhubApple>>, <<FinnhubForex>>, <<FinnhubNoSymbol, NullRow>>,
     <<FinnhubPineapple, FinnhubApple>>}

\* answers of Finnhub that make its adapter throw, and those that do not
FinnhubSearchFailures ==
    {NetError, Http("429", BodyNull),
     Http("429", FinnhubSearchObject(LongUpstreamMessage, FALSE, <<>>))}
FinnhubSearchSuccesses ==
    {Http(OkStatus, BodyNull), Http(OkStatus, FinnhubSearchObject(NoMessage, FALSE, <<>>))}
    \cup {Http(OkStatus, FinnhubSearchObject(NoMessage, TRUE, rows)) :
             rows \in FinnhubSearchResults}

\* a row of Twelve Data's data array
TwelveDataSearchRow(symbol, instrument_name, type, exchange) ==
    [isNull |-> FALSE, symbol |-> symbol, instrument_name |-> instrument_name,
     name |-> Absent, type |-> Absent, instrument_type |-> type, exchange |-> exchange,
     mic_code |-> Absent]
TwelveDataNullRow ==
    [isNull |-> TRUE, symbol |-> Absent, instrument_name |-> Absent, name |-> Absent,
     type |-> Absent, instrument_type |-> Absent, exchange |-> Absent, mic_code |-> Absent]

TwelveDataApple ==
    TwelveDataSearchRow(<<"A", "A", "P", "L">>, <<"A", "p", "p", "l", "e", " ", "I", "n", "c">>, <<"C", "o", "m", "m", "o", "n", " ", "S", "t", "o", "c", "k">>, <<"N", "A", "S", "D", "A", "Q">>)
TwelveDataAppleXetra ==
    TwelveDataSearchRow(<<"A", "P", "C">>, <<"A", "p", "p", "l", "e", " ", "I", "n", "c", ".">>, <<"C", "o", "m", "m", "o", "n", " ", "S", "t", "o", "c", "k">>, <<"x", "e", "t", "r">>)
TwelveDataBitcoin ==
    TwelveDataSearchRow(<<"B", "T", "C", "/", "U", "S", "D">>, <<"B", "i", "t", "c", "o", "i", "n", " ", "U", "S", " ", "D", "o", "l", "l", "a", "r">>, <<"D", "i", "g", "i", "t", "a", "l", " ", "C", "u", "r", "r", "e", "n", "c", "y">>, Absent)
TwelveDataNoName == TwelveDataSearchRow(Absent, Absent, Absent, Absent)

TwelveDataSearchObject(status, message, isArray, rows) ==
    [shape |-> "object", status |-> status, message |-> message, isArray |-> isArray,
     data |-> rows]

TwelveDataSearchResults ==
    {<<>>, <<TwelveDataApple>>, <<TwelveDataBitcoin, TwelveDataNoName>>,
     <<TwelveDataAppleXetra, TwelveDataApple>>}

TwelveDataSearchFailures ==
    {NetError, Http("429", BodyNull), Http(OkStatus, BodyNull),
     Http(OkStatus, TwelveDataSearchObject("error", ShortUpstreamMessage, FALSE, <<>>)),
     Http(OkStatus, TwelveDataSearchObject("error", NoMessage, FALSE, <<>>)),
     Http(OkStatus, TwelveDataSearchObject("ok", NoMessage, TRUE, <<TwelveDataNullRow>>))}
TwelveDataSearchSuccesses ==
    {Http(OkStatus, BodyScalar)}
    \cup {Http(OkStatus, TwelveDataSearchObject("ok", NoMessage, TRUE, rows)) :
             rows \in TwelveDataSearchResults}

\* the q and limit parameters as the URL delivers them
RawQueries ==
    {Absent, <<>>, <<" ", " ">>, <<"\t">>, <<" ", "a", "p", "p", "l", "e", " ">>, <<"A", "A", "P", "L">>}
RawLimits == {LimitAbsent, LimitInt(1), LimitJunk}

----------------------------------------------------------------------------
(* The clock and the process *)

Keys == {KeyOf(p) : p \in Providers}

\* the instant the process starts at: two days after the model's epoch (the
\* epoch is chosen so that milliseconds stay within TLC's 32-bit integers)
StartOfTime == 2 * 24 * 60 * 60 * 1000

\* no function has been called on its own
NoCall == [fn |-> "none"]

\* the clock advances by d milliseconds
Tick(d, limit) ==
    /\ ticks < limit
    /\ now' = now + d
    /\ ticks' = ticks + 1
    /\ UNCHANGED <<env, records, cache, req, lookups, call>>

\* the process has just started, with the API keys of its deployment
InitWith(keys) ==
    /\ now = StartOfTime
    /\ ticks = 0
    /\ env \in SUBSET keys
    /\ records = <<>>
    /\ cache = EmptyCache
    /\ req = [r \in RequestSlots |-> IdleRequest]
    /\ lookups = <<>>
    /\ call = NoCall

\* the steps of quote requests
StocksSteps ==
    \/ \E r \in 1..MaxRequests, rawSymbol \in RawSymbols, rand \in RandomTails :
          StocksGET(r, rawSymbol, rand)
    \/ \E r \in RequestSlots, res \in FinnhubQuoteResponses : StocksFinnhubQuote(r, res)
    \/ \E r \in RequestSlots, res \in FinnhubProfileResponses : StocksFinnhubProfile(r, res)
    \/ \E r \in RequestSlots, res \in TwelveDataQuoteResponses : StocksTwelveData(r, res)

NextStocks == Tick(1, MaxTicks) \/ StocksSteps

\* A body with rows is drawn in two ways: any sequence of well-formed rows, in
\* the provider's plain shape; or one well-formed row followed by one row of
\* another kind, in each shape the adapter tells apart.
LastRow == [pos |-> "last", form |-> "datetime", bad |-> "none"]

NextCandles ==
    \/ \E r \in 1..MaxRequests, rawSymbol \in RawSymbols, rawRange \in RawRanges,
          rand \in RandomTails :
          CandlesGET(r, rawSymbol, rawRange, rand)
    \/ \E r \in RequestSlots, res \in FinnhubCandleFailures : CandlesFinnhub(r, res)
    \/ \E r \in RequestSlots, k \in 0..MaxRows :
          \E rows \in [1..k -> GoodRows] :
             CandlesFinnhub(r, FinnhubCandleBody(rows, "full", req[r].from, req[r].to))
    \/ \E r \in RequestSlots, other \in GoodRows \cup BrokenRows, shape \in FinnhubShapes :
          CandlesFinnhub(r, FinnhubCandleBody(<<LastRow, other>>, shape, req[r].from, req[r].to))
    \/ \E r \in RequestSlots, res \in TwelveDataCandleFailures : CandlesTwelveData(r, res)
    \/ \E r \in RequestSlots, k \in 0..MaxRows :
          \E rows \in [1..k -> GoodRows] :
             CandlesTwelveData(r, TwelveDataCandleBody(rows, TRUE, req[r].from, req[r].to))
    \/ \E r \in RequestSlots, other \in BrokenRows \cup DateRows, hasVolume \in BOOLEAN :
          CandlesTwelveData(r, TwelveDataCandleBody(<<LastRow, other>>, hasVolume,
                                                    req[r].from, req[r].to))
    \/ \E r \in RequestSlots, res \in AlphaVantageFailures : CandlesAlphaVantage(r, res)
    \/ \E r \in RequestSlots, k \in 0..MaxRows, keyRange \in {"24H", "3M"} :
          \E rows \in [1..k -> GoodRows] :
             /\ DistinctKeys(rows, req[r].from, req[r].to)
             /\ CandlesAlphaVantage(r, AlphaVantageBody(rows, "6", keyRange,
                                                       req[r].from, req[r].to))
    \/ \E r \in RequestSlots, other \in BrokenRows \cup DateRows,
          volumeKey \in {"6", "5", "none"} :
          CandlesAlphaVantage(r, AlphaVantageBody(<<LastRow, other>>, volumeKey, req[r].range,
                                                  req[r].from, req[r].to))

InitCandles == InitWith(Keys)

SpecCandles == InitCandles /\ [][NextCandles]_vars

\* the quote handler and the candle handler of one process
Init == InitWith(Keys)
Next == StocksSteps \/ NextCandles
Spec == Init /\ [][Next]_vars

\* the quote handler reads the keys of its own chain only
InitStocks == InitWith({KeyOf(StocksChain[i]) : i \in 1..Len(StocksChain)})

SpecStocks == InitStocks /\ [][NextStocks]_vars

\* the search handler of a process
SearchSteps ==
    \/ \E r \in 1..MaxRequests, rawQuery \in RawQueries, rawLimit \in RawLimits,
          rand \in RandomTails :
          SearchGET(r, rawQuery, rawLimit, rand)
    \/ \E r \in RequestSlots, res \in FinnhubSearchFailures \cup FinnhubSearchSuccesses :
          SearchFinnhub(r, res)
    \/ \E r \in RequestSlots, res \in TwelveDataSearchFailures \cup TwelveDataSearchSuccesses :
          SearchTwelveData(r, res)

NextSearch == Tick(1, MaxTicks) \/ SearchSteps

InitSearch == InitWith({KeyOf(SearchChain[i]) : i \in 1..Len(SearchChain)})

SpecSearch == InitSearch /\ [][NextSearch]_vars

\* the search handler of a process whose clients may go away
NextSearchCancel == SearchSteps \/ \E r \in RequestSlots : SearchCancel(r)
SpecSearchCancel == InitSearch /\ [][NextSearchCancel]_vars

\* Two search requests of one process, for a name or a ticker, without
\* limit; each provider answers with a transport error, with
\* one row or with two rows.
PairQueries == {<<" ", "a", "p", "p", "l", "e", " ">>, <<"A", "A", "P", "L">>}
PairLimits == {LimitAbsent}
PairFinnhubAnswers ==
    {NetError} \cup {Http(OkStatus, FinnhubSearchObject(NoMessage, TRUE, rows)) :
                        rows \in {<<FinnhubApple>>, <<FinnhubPineapple, FinnhubApple>>}}
PairTwelveDataAnswers ==
    {NetError} \cup {Http(OkStatus, TwelveDataSearchObject("ok", NoMessage, TRUE, rows)) :
                        rows \in {<<TwelveDataApple>>, <<TwelveDataAppleXetra, TwelveDataApple>>}}

NextSearchPair ==
    \/ \E r \in 1..MaxPairRequests, rawQuery \in PairQueries, rawLimit \in PairLimits,
          rand \in RandomTails :
          SearchGET(r, rawQuery, rawLimit, rand)
    \/ \E r \in RequestSlots, res \in PairFinnhubAnswers : SearchFinnhub(r, res)
    \/ \E r \in RequestSlots, res \in PairTwelveDataAnswers : SearchTwelveData(r, res)

SpecSearchPair == InitSearch /\ [][NextSearchPair]_vars

\* Two requests of one process, each a quote, a candle or a search request,
\* whose provider calls interleave; each provider answers with a transport
\* error or with one usable answer.
InterleavedQuote == Http(OkStatus, FinnhubQuoteObject(JNum(18931), JUndef, NoMessage))
InterleavedProfile == Http(OkStatus, [shape |-> "object", name |-> AppleInc])
InterleavedTwelveDataQuote ==
    Http(OkStatus, TwelveDataQuoteObject(JStrNum(18931), JStrPct(97), AppleInc, "ok", NoMessage))

NextInterleaved ==
    \/ \E r \in 1..MaxPairRequests, rand \in RandomTails : StocksGET(r, <<"a", "a", "p", "l">>, rand)
    \/ \E r \in RequestSlots, res \in {NetError, InterleavedQuote} : StocksFinnhubQuote(r, res)
    \/ \E r \in RequestSlots, res \in {NetError, InterleavedProfile} :
          StocksFinnhubProfile(r, res)
    \/ \E r \in RequestSlots, res \in {NetError, InterleavedTwelveDataQuote} :
          StocksTwelveData(r, res)
    \/ \E r \in 1..MaxPairRequests, rawSymbol \in {Absent, <<"a", "a", "p", "l">>}, rand \in RandomTails :
          CandlesGET(r, rawSymbol, <<"1", "d">>, rand)
    \/ \E r \in RequestSlots : CandlesFinnhub(r, NetError)
    \/ \E r \in RequestSlots :
          CandlesFinnhub(r, FinnhubCandleBody(<<LastRow>>, "full", req[r].from, req[r].to))
    \/ \E r \in RequestSlots : CandlesTwelveData(r, NetError)
    \/ \E r \in RequestSlots :
          CandlesTwelveData(r, TwelveDataCandleBody(<<LastRow>>, TRUE, req[r].from, req[r].to))
    \/ \E r \in RequestSlots : CandlesAlphaVantage(r, NetError)
    \/ \E r \in RequestSlots :
          CandlesAlphaVantage(r, AlphaVantageBody(<<LastRow>>, "6", req[r].range,
                                                  req[r].from, req[r].to))
    \/ \E r \in 1..MaxPairRequests, rand \in RandomTails :
          SearchGET(r, <<"a", "p", "p", "l", "e">>, LimitAbsent, rand)
    \/ \E r \in RequestSlots, res \in PairFinnhubAnswers : SearchFinnhub(r, res)
    \/ \E r \in RequestSlots, res \in PairTwelveDataAnswers : SearchTwelveData(r, res)

SpecInterleaved == Init /\ [][NextInterleaved]_vars

\* the three handlers of one process
NextApi == StocksSteps \/ NextCandles \/ SearchSteps
SpecApi == Init /\ [][NextApi]_vars

\* Candle requests that share the cache: one symbol in two ranges, Finnhub
\* alone configured and answering with a transport error or with one row, at
\* the first or at the last second of the window; the clock moves by one
\* millisecond or to one millisecond before the expiry of an entry of range
\* 24H written now.
CacheRanges == {<<" ", "1", "d">>, <<"w", "e", "e", "k">>}
CacheSymbols == {Absent, <<" ", "a", " ">>}
CacheSteps == {1, ttlSeconds("24H") * 1000 - 1}
CacheRows == {row \in GoodRows : row.pos \in {"first", "last"}}

NextCache ==
    \/ \E d \in CacheSteps : Tick(d, MaxCacheTicks)
    \/ \E r \in 1..MaxCacheRequests, rawSymbol \in CacheSymbols, rawRange \in CacheRanges,
          rand \in RandomTails :
          CandlesGET(r, rawSymbol, rawRange, rand)
    \/ \E r \in RequestSlots : CandlesFinnhub(r, NetError)
    \/ \E r \in RequestSlots, row \in CacheRows :
          CandlesFinnhub(r, FinnhubCandleBody(<<row>>, "full", req[r].from, req[r].to))

InitCache ==
    /\ InitWith(Keys)
    /\ env = {KeyOf("finnhub")}

SpecCache == InitCache /\ [][NextCache]_vars

\* Candle requests that race for the cache: one symbol in two ranges, Finnhub
\* and Twelve Data configured, each answering with a transport error or with
\* one row, at the first or at the last second of the window.
InitRace ==
    /\ InitWith(Keys)
    /\ env = {KeyOf("finnhub"), KeyOf("twelvedata")}

NextRace ==
    \/ \E r \in 1..MaxCacheRequests, rawSymbol \in CacheSymbols, rawRange \in CacheRanges,
          rand \in RandomTails :
          CandlesGET(r, rawSymbol, rawRange, rand)
    \/ \E r \in RequestSlots : CandlesFinnhub(r, NetError)
    \/ \E r \in RequestSlots, row \in CacheRows :
          CandlesFinnhub(r, FinnhubCandleBody(<<row>>, "full", req[r].from, req[r].to))
    \/ \E r \in RequestSlots : CandlesTwelveData(r, NetError)
    \/ \E r \in RequestSlots, row \in CacheRows :
          CandlesTwelveData(r, TwelveDataCandleBody(<<row>>, TRUE, req[r].from, req[r].to))

SpecRace == InitRace /\ [][NextRace]_vars

\* Candle requests for one symbol whose range parameter is each range and
\* each alias in upper, lower or mixed case, a word that is no range, the
\* empty string, and no parameter; Finnhub alone is configured and answers
\* with a transport error or with one row at the end of the window.
RangeInputs ==
    {Absent, <<>>, <<"2", "4", "h">>, <<"1", "D">>, <<"1", "d">>, <<"3", "h">>, <<"1", "w">>, <<"1", "M">>, <<"3", "m">>, <<"6", "M">>,
     <<"1", "y">>, <<"Y", "t", "d">>, <<" ", "y", "t", "d", " ">>, <<"5", "Y">>, <<"m", "a", "x">>}

RangeSymbols == {<<" ", "a", " ">>}

NextRange ==
    \/ \E r \in 1..MaxCacheRequests, rawSymbol \in RangeSymbols, rawRange \in RangeInputs,
          rand \in RandomTails :
          CandlesGET(r, rawSymbol, rawRange, rand)
    \/ \E r \in RequestSlots : CandlesFinnhub(r, NetError)
    \/ \E r \in RequestSlots :
          CandlesFinnhub(r, FinnhubCandleBody(<<LastRow>>, "full", req[r].from, req[r].to))

SpecRange == InitCache /\ [][NextRange]_vars

\* A candle request for one symbol in each range, by the name of the range;
\* any of the keys configured; each provider answers with a transport error
\* or with one row at the end of the window; the clock moves by one
\* millisecond or by one millisecond less than a second.
WindowRanges ==
    {<<"2", "4", "H">>, <<"1", "W">>, <<"1", "M">>, <<"3", "M">>, <<"6", "M">>, <<"1", "Y">>, <<"5", "Y">>}
WindowSteps == {1, 999}

NextWindow ==
    \/ \E d \in WindowSteps : Tick(d, MaxWindowTicks)
    \/ \E r \in 1..MaxWindowRequests, rawSymbol \in RangeSymbols, rawRange \in WindowRanges,
          rand \in RandomTails :
          CandlesGET(r, rawSymbol, rawRange, rand)
    \/ \E r \in RequestSlots : CandlesFinnhub(r, NetError)
    \/ \E r \in RequestSlots :
          CandlesFinnhub(r, FinnhubCandleBody(<<LastRow>>, "full", req[r].from, req[r].to))
    \/ \E r \in RequestSlots : CandlesTwelveData(r, NetError)
    \/ \E r \in RequestSlots :
          CandlesTwelveData(r, TwelveDataCandleBody(<<LastRow>>, TRUE, req[r].from, req[r].to))
    \/ \E r \in RequestSlots : CandlesAlphaVantage(r, NetError)
    \/ \E r \in RequestSlots :
          CandlesAlphaVantage(r, AlphaVantageBody(<<LastRow>>, "6", req[r].range,
                                                  req[r].from, req[r].to))

InitWindow == InitWith(Keys)

SpecWindow == InitWindow /\ [][NextWindow]_vars

\* The observability route over a long log: attempts of the three handlers
\* with their providers fail in turn, after 0 to 4 milliseconds, until the
\* log is 3 records short of its bound; from there attempts succeed or fail.
\* The route is asked once, for a log of at most 2 records or of at least
\* the bound less 3, with each kind of limit parameter.
RecentLimits ==
    {LimitAbsent, LimitEmpty, LimitInt(0), LimitInt(-5), LimitInt(2), LimitHalf(2),
     LimitInt(600), LimitInfinity, LimitJunk}

InitRecent ==
    /\ now = StartOfTime
    /\ ticks = 0
    /\ env = {}
    /\ records = <<>>
    /\ cache = EmptyCache
    /\ req = [r \in RequestSlots |-> IdleRequest]
    /\ lookups = <<>>
    /\ call = NoCall

\* the handlers and their providers
RecentGroups ==
    <<<<"stocks", "finnhub">>, <<"stocks", "twelvedata">>, <<"candles", "finnhub">>,
      <<"candles", "twelvedata">>, <<"candles", "alphavantage">>, <<"search", "finnhub">>,
      <<"search", "twelvedata">>>>

\* the completion function of beginProviderAttempt is called
RecentComplete(status) ==
    /\ Len(records) < MaxRecentRecords
    /\ (Len(records) < MaxRecentRecords - 3) => status = "error"
    /\ LET group == RecentGroups[(Len(records) % 7) + 1]
           route == IF group[1] = "search" THEN SEARCH_ROUTE ELSE RouteOf(group[1])
       IN records' = appendRecord(records,
                        toRecord(completeAttempt(group[2], now - (Len(records) % 5), status,
                                                 ShortUpstreamMessage, now),
                                 createRequestId(group[1], now, "k3f9x2"), route, now))
    /\ UNCHANGED <<now, ticks, env, cache, req, lookups, call>>

\* GET /api/observability
ObservabilityGET(rawLimit) ==
    /\ call = NoCall
    /\ Len(records) <= 2 \/ Len(records) >= MaxRecentRecords - 3
    /\ call' = [fn |-> "observabilityGET", rawLimit |-> rawLimit, seen |-> records,
                snapshot |-> getObservabilitySnapshot(records, flooredLimit(rawLimit))]
    /\ UNCHANGED <<now, ticks, env, records, cache, req, lookups>>

NextRecent ==
    \/ \E status \in {"ok", "error"} : RecentComplete(status)
    \/ \E rawLimit \in RecentLimits : ObservabilityGET(rawLimit)

SpecRecent == InitRecent /\ [][NextRecent]_vars

----------------------------------------------------------------------------
(* The ranker called on its own: the lines 802-806 of the search handler,
   sanitizeCandidate over the candidates and rankAndDeduplicate over what
   passes, on candidate lists that grow by one candidate at a time *)

\* a candidate as an adapter builds it from a row
Candidate(provider, symbol, description, type, exchange) ==
    [symbol |-> symbol, displaySymbol |-> symbol, description |-> description,
     type |-> type, exchange |-> exchange, provider |-> provider]

AppleOfFinnhub == Candidate("finnhub", <<"A", "A", "P", "L">>, <<"A", "p", "p", "l", "e", " ", "I", "n", "c">>, <<"C", "o", "m", "m", "o", "n", " ", "S", "t", "o", "c", "k">>, <<>>)
AppleOfTwelveData ==
    Candidate("twelvedata", <<"A", "A", "P", "L">>, <<"A", "p", "p", "l", "e", " ", "I", "n", "c">>, <<"C", "o", "m", "m", "o", "n", " ", "S", "t", "o", "c", "k">>, <<"N", "A", "S", "D", "A", "Q">>)
AppleOnXetra ==
    Candidate("twelvedata", <<"A", "P", "C">>, <<"A", "p", "p", "l", "e", " ", "I", "n", "c", "o", "r", "p", "o", "r", "a", "t", "e", "d">>, <<"C", "o", "m", "m", "o", "n", " ", "S", "t", "o", "c", "k">>, <<"X", "E", "T", "R">>)
AppleComputer == Candidate("twelvedata", <<"A", "A", "P", "L">>, <<"A", "p", "p", "l", "e", " ", "C", "o", "m", "p", "u", "t", "e", "r">>, <<"C", "o", "m", "m", "o", "n", " ", "S", "t", "o", "c", "k">>, <<>>)
Pineapple == Candidate("finnhub", <<"P", "N", "P", "L">>, <<"P", "i", "n", "e", "a", "p", "p", "l", "e", " ", "E", "n", "e", "r", "g", "y">>, <<"C", "o", "m", "m", "o", "n", " ", "S", "t", "o", "c", "k">>, <<>>)
Microsoft == Candidate("finnhub", <<"M", "S", "F", "T">>, <<"M", "i", "c", "r", "o", "s", "o", "f", "t", " ", "C", "o", "r", "p">>, <<"C", "o", "m", "m", "o", "n", " ", "S", "t", "o", "c", "k">>, <<>>)
ThreeM == Candidate("finnhub", <<"M", "M", "M">>, <<"3", "M", " ", "C", "o">>, <<"C", "o", "m", "m", "o", "n", " ", "S", "t", "o", "c", "k">>, <<>>)
ThreeMOnXetra == Candidate("twelvedata", <<"M", "M", "M", ".", "D", "E">>, <<"3", "M", " ", "C", "o", "m", "p", "a", "n", "y">>, <<"C", "o", "m", "m", "o", "n", " ", "S", "t", "o", "c", "k">>, <<"X", "E", "T", "R">>)
CurrencyTrust == Candidate("finnhub", <<"F", "X", "E">>, <<"E", "u", "r", "o", " ", "C", "u", "r", "r", "e", "n", "c", "y", " ", "T", "r", "u", "s", "t">>, <<>>, <<>>)

RankCatalog ==
    {AppleOfFinnhub, AppleOfTwelveData, AppleOnXetra, AppleComputer, Pineapple, Microsoft,
     ThreeM, ThreeMOnXetra, CurrencyTrust}

RankQueries == {<<"a", "p", "p", "l", "e">>, <<"a", "p", "p", "l", "e", " ", "i", "n", "c">>}
RankLimits ==
    {LimitAbsent, LimitInt(0), LimitHalf(2), LimitInt(99), LimitJunk, LimitInfinity}

\* Array.prototype.splice(i - 1, 0, item) on a copy
InsertAt(items, i, item) ==
    SubSeq(items, 1, i - 1) \o <<item>> \o SubSeq(items, i, Len(items))

\* allCandidates.map(sanitizeCandidate).filter(item => item !== null)
sanitizeAll(candidates) ==
    LET cleaned == [i \in 1..Len(candidates) |-> sanitizeCandidate(candidates[i])]
        Passed(c) == c.ok
        kept == SelectSeq(cleaned, Passed)
    IN SubSeq([i \in 1..Len(kept) |-> kept[i].item], 1, Len(kept))

\* the ranker has been given a query and a limit, and no candidate yet
InitRank ==
    /\ now = StartOfTime
    /\ ticks = 0
    /\ env = {}
    /\ records = <<>>
    /\ cache = EmptyCache
    /\ req = [r \in RequestSlots |-> IdleRequest]
    /\ lookups = <<>>
    /\ \E query \in RankQueries, rawLimit \in RankLimits :
          call = [fn |-> "rankAndDeduplicate", candidates |-> <<>>, query |-> query,
                  rawLimit |-> rawLimit, limit |-> parseLimit(rawLimit),
                  sanitized |-> <<>>, output |-> <<>>, before |-> <<>>, at |-> 0]

\* The ranker is called again with one more candidate, put at place i of the
\* list, its head or its end; `before` keeps what it returned without that
\* candidate.
RankWith(candidate, i) ==
    /\ call.fn = "rankAndDeduplicate"
    /\ Len(call.candidates) < MaxCandidates
    /\ i \in {1, Len(call.candidates) + 1}
    /\ LET candidates == InsertAt(call.candidates, i, candidate)
           sanitized == sanitizeAll(candidates)
       IN call' = [call EXCEPT !.candidates = candidates,
                               !.sanitized = sanitized,
                               !.output = rankAndDeduplicate(sanitized, call.query, call.limit),
                               !.before = call.output,
                               !.at = i]
    /\ UNCHANGED <<now, ticks, env, records, cache, req, lookups>>

NextRank ==
    \E candidate \in RankCatalog, i \in 1..MaxCandidates : RankWith(candidate, i)

SpecRank == InitRank /\ [][NextRank]_vars

----------------------------------------------------------------------------
(* The recorder called on its own: Finnhub attempts of the quote route and of
   the search route are completed or skipped one after the other, a
   millisecond apart, from an empty log until it has overflowed. Up to one
   record before the capacity every attempt is a successful Finnhub quote; from there on the route, the
   provider and the outcome are free. `appended` keeps every record handed to
   appendRecord. *)

LogRoutes == {STOCKS_ROUTE, SEARCH_ROUTE}
LogProviders == {"finnhub"}

InitLog ==
    /\ now = StartOfTime
    /\ ticks = 0
    /\ env = {}
    /\ records = <<>>
    /\ cache = EmptyCache
    /\ req = [r \in RequestSlots |-> IdleRequest]
    /\ lookups = <<>>
    /\ call = [fn |-> "appendRecord", appended |-> <<>>]

AlikeUntilNearlyFull(route, provider, status) ==
    (Len(call.appended) < MAX_RECORDS - 1)
       => (route = STOCKS_ROUTE /\ provider = "finnhub" /\ status = "ok")

Recorded(record) ==
    /\ records' = appendRecord(records, record)
    /\ call' = [call EXCEPT !.appended = Append(@, record)]
    /\ now' = now + 1
    /\ UNCHANGED <<ticks, env, cache, req, lookups>>

\* the completion function of beginProviderAttempt is called
CompleteProviderAttempt(route, provider, status) ==
    /\ call.fn = "appendRecord"
    /\ Len(call.appended) < MaxAppends
    /\ AlikeUntilNearlyFull(route, provider, status)
    /\ Recorded(toRecord(completeAttempt(provider, now, status, LongUpstreamMessage, now),
                         createRequestId(route[1], now, "k3f9x2"), route, now))

\* recordSkippedProviderAttempt is called
RecordSkippedProviderAttempt(route, provider) ==
    /\ call.fn = "appendRecord"
    /\ Len(call.appended) < MaxAppends
    /\ AlikeUntilNearlyFull(route, provider, "skipped")
    /\ Recorded(toRecord(skippedAttempt(provider, MissingKeyReason(provider)),
                         createRequestId(route[1], now, "k3f9x2"), route, now))

NextLog ==
    \/ \E route \in LogRoutes, provider \in LogProviders, status \in {"ok", "error"} :
          CompleteProviderAttempt(route, provider, status)
    \/ \E route \in LogRoutes, provider \in LogProviders :
          RecordSkippedProviderAttempt(route, provider)

SpecLog == InitLog /\ [][NextLog]_vars

----------------------------------------------------------------------------
(* The score cutoff called on its own, on lists sorted by falling score that
   grow by one candidate at a time; the scores lie on both sides of each
   threshold of the cutoff for a top score of 1000 and of 200 *)

CutoffScores == {1000, 840, 660, 659, 500, 480, 479, 200, 180, 179, 90, 89}
CutoffQueries == {<<"a", "a", "p", "l">>, <<"b", "r", "k", ".", "b">>, <<"a", "p", "p", "l", "e", " ", "i", "n", "c">>}
CutoffLimits == {1, 2, 3, 10}

InitCutoff ==
    /\ now = StartOfTime
    /\ ticks = 0
    /\ env = {}
    /\ records = <<>>
    /\ cache = EmptyCache
    /\ req = [r \in RequestSlots |-> IdleRequest]
    /\ lookups = <<>>
    /\ \E query \in CutoffQueries, limit \in CutoffLimits :
          call = [fn |-> "applyScoreCutoff", sorted |-> <<>>, query |-> query,
                  limit |-> limit, output |-> <<>>]

\* the cutoff is called with one more candidate at the end of the list, of a
\* score not above the last one's
CutoffWith(score) ==
    /\ call.fn = "applyScoreCutoff"
    /\ Len(call.sorted) < MaxScored
    /\ (call.sorted # <<>>) => score <= call.sorted[Len(call.sorted)].score
    /\ LET sorted == Append(call.sorted, [score |-> score, at |-> Len(call.sorted) + 1])
       IN call' = [call EXCEPT !.sorted = sorted,
                               !.output = applyScoreCutoff(sorted, call.query, call.limit)]
    /\ UNCHANGED <<now, ticks, env, records, cache, req, lookups>>

NextCutoff == \E score \in CutoffScores : CutoffWith(score)

\* the cutoff called for queries of one word of 1, 5, 6 and 7 characters, of
\* two words, and of a ticker with a class
SharpQueries == {<<"a">>, <<"a", "p", "p", "l", "e">>, <<"a", "b", "c", "1", "2", "3">>, <<"a", "b", "c", "d", "e", "f", "g">>, <<"a", "p", "p", "l", "e", " ", "i", "n", "c">>, <<"b", "r", "k", ".", "b">>}

InitSharp ==
    /\ now = StartOfTime
    /\ ticks = 0
    /\ env = {}
    /\ records = <<>>
    /\ cache = EmptyCache
    /\ req = [r \in RequestSlots |-> IdleRequest]
    /\ lookups = <<>>
    /\ \E query \in SharpQueries, limit \in CutoffLimits :
          call = [fn |-> "applyScoreCutoff", sorted |-> <<>>, query |-> query,
                  limit |-> limit, output |-> <<>>]

SpecSharp == InitSharp /\ [][NextCutoff]_vars

SpecCutoff == InitCutoff /\ [][NextCutoff]_vars

----------------------------------------------------------------------------
(* The snapshot taken of a growing log: Finnhub attempts of the quote route
   and of the search route are completed after 5 or 9 milliseconds or
   skipped, and at any time the snapshot is computed from the log. Up to
   four records before the bound every attempt is an ok quote of 5
   milliseconds. `seen` keeps the log the snapshot was computed from. *)

SnapshotLatencies == {5, 9}

InitSnapshot ==
    /\ now = StartOfTime
    /\ ticks = 0
    /\ env = {}
    /\ records = <<>>
    /\ cache = EmptyCache
    /\ req = [r \in RequestSlots |-> IdleRequest]
    /\ lookups = <<>>
    /\ call = [fn |-> "getObservabilitySnapshot", seen |-> <<>>,
               snapshot |-> [totalRecords |-> 0, providerMetrics |-> EmptyMap,
                             recentErrors |-> <<>>, recentCalls |-> <<>>]]

AlikeUntilNearBound(route, latency) ==
    (Len(records) < MaxSnapshotRecords - 4) => (route = STOCKS_ROUTE /\ latency = 5)

\* the completion function of beginProviderAttempt is called `latency`
\* milliseconds after the attempt began
SnapshotComplete(route, status, latency) ==
    /\ call.fn = "getObservabilitySnapshot"
    /\ Len(records) < MaxSnapshotRecords
    /\ AlikeUntilNearBound(route, latency)
    /\ (Len(records) < MaxSnapshotRecords - 4) => status = "ok"
    /\ records' = appendRecord(records,
                     toRecord(completeAttempt("finnhub", now - latency, status,
                                              ShortUpstreamMessage, now),
                              createRequestId(route[1], now, "k3f9x2"), route, now))
    /\ UNCHANGED <<now, ticks, env, cache, req, lookups, call>>

\* recordSkippedProviderAttempt is called
SnapshotSkipped(route) ==
    /\ call.fn = "getObservabilitySnapshot"
    /\ Len(records) < MaxSnapshotRecords
    /\ Len(records) >= MaxSnapshotRecords - 4
    /\ records' = appendRecord(records,
                     toRecord(skippedAttempt("finnhub", MissingKeyReason("finnhub")),
                              createRequestId(route[1], now, "k3f9x2"), route, now))
    /\ UNCHANGED <<now, ticks, env, cache, req, lookups, call>>

\* getObservabilitySnapshot() is called
GetSnapshot ==
    /\ call.fn = "getObservabilitySnapshot"
    /\ call.seen # records
    /\ call' = [call EXCEPT !.seen = records,
                            !.snapshot = getObservabilitySnapshot(records,
                                                                  Fin(DEFAULT_RECENT_LIMIT))]
    /\ UNCHANGED <<now, ticks, env, records, cache, req, lookups>>

NextSnapshot ==
    \/ \E route \in LogRoutes, status \in {"ok", "error"}, latency \in SnapshotLatencies :
          SnapshotComplete(route, status, latency)
    \/ \E route \in LogRoutes : SnapshotSkipped(route)
    \/ GetSnapshot

SpecSnapshot == InitSnapshot /\ [][NextSnapshot]_vars

----------------------------------------------------------------------------
(* Properties of GET /stocks/{symbol} *)

\* provider and status of every entry of an attempt list
Outline(attempts) ==
    [i \in 1..Len(attempts) |-> <<attempts[i].provider, attempts[i].status>>]

\* price fields that hold zero or no finite number, one that holds a negative
\* number, and those that hold a finite number above zero
ZeroOrNonFinitePrices == {JNum(0), JStrJunk, JUndef, JNull, JHuge}
NegativePrices == {JNum(0 - 5)}
ValidPrices == {JNum(18931), JStrNum(18931)}

\* a well-formed quote body of a provider with its price among `prices`
FinnhubQuotesPriced(prices) ==
    {Http(OkStatus, FinnhubQuoteObject(c, JUndef, NoMessage)) : c \in prices}
TwelveDataQuotesPriced(prices) ==
    {Http(OkStatus, TwelveDataQuoteObject(c, JStrPct(97), AppleInc, "ok", NoMessage)) :
        c \in prices}

\* C1: in a quote request, once Finnhub has answered with a quote whose price
\* is zero or not finite, the first attempt is an error of finnhub, no profile
\* is fetched, and Twelve Data is called if it is configured; once Twelve Data
\* has then answered with a finite price above zero, the response is 200, its
\* provider is "twelvedata", it carries that price, and providerAttempts is
\* exactly (finnhub error, twelvedata ok).
C1_FallbackToTwelveData ==
    \A r \in RequestSlots :
        LET st == req[r]
        IN (/\ st.kind = "stocks"
            /\ Len(st.answers) >= 1
            /\ st.answers[1].provider = "finnhub"
            /\ st.answers[1].res \in FinnhubQuotesPriced(ZeroOrNonFinitePrices))
           => /\ Len(st.providerAttempts) >= 1
              /\ Outline(st.providerAttempts)[1] = <<"finnhub", "error">>
              /\ st.calls = IF KeyOf("twelvedata") \in env
                            THEN <<"finnhub", "twelvedata">> ELSE <<"finnhub">>
              /\ (/\ Len(st.answers) = 2
                  /\ st.answers[2].provider = "twelvedata"
                  /\ st.answers[2].res \in TwelveDataQuotesPriced(ValidPrices))
                 => /\ st.pc = "done"
                    /\ st.response.status = 200
                    /\ st.response.provider = "twelvedata"
                    /\ st.response.quote.c = 18931
                    /\ Outline(st.response.providerAttempts)
                          = <<<<"finnhub", "error">>, <<"twelvedata", "ok">>>>

\* a quote request answered by Twelve Data after Finnhub delivered a price
\* that is zero or not finite
C1_Witness ==
    \E r \in RequestSlots :
        /\ req[r].kind = "stocks"
        /\ Len(req[r].answers) = 2
        /\ req[r].answers[1].res \in FinnhubQuotesPriced(ZeroOrNonFinitePrices)
        /\ req[r].answers[2].res \in TwelveDataQuotesPriced(ValidPrices)
        /\ req[r].response.status = 200

\* the attempts of `provider` in a list
AttemptsOf(attempts, provider) ==
    {attempts[i].status : i \in {j \in 1..Len(attempts) : attempts[j].provider = provider}}

\* C8: a 200 response of the quote handler carries a price above zero (every
\* number of a normalised quote is finite), and a provider whose well-formed
\* quote body held a zero, negative or non-finite price has an error attempt
\* in the request and no ok attempt.
C8_NoInvalidPriceSurfaced ==
    \A r \in RequestSlots :
        LET st == req[r]
            bad == ZeroOrNonFinitePrices \cup NegativePrices
        IN st.kind = "stocks" =>
              /\ st.response.status = 200 => st.response.quote.c > 0
              /\ \A i \in 1..Len(st.answers) :
                    st.answers[i].res \in FinnhubQuotesPriced(bad) \cup TwelveDataQuotesPriced(bad)
                    => AttemptsOf(st.providerAttempts, st.answers[i].provider) = {"error"}

\* a 200 response after Finnhub delivered a negative price
C8_Witness ==
    \E r \in RequestSlots :
        /\ req[r].kind = "stocks"
        /\ Len(req[r].answers) = 2
        /\ req[r].answers[1].res \in FinnhubQuotesPriced(NegativePrices)
        /\ req[r].response.status = 200
        /\ req[r].response.quote.c > 0

----------------------------------------------------------------------------
(* Properties of GET /candles *)

\* What a row of an upstream body says, read off the row itself: its instant
\* (a date alone names the midnight its day begins with) and whether it is
\* usable, that is, holds a number in every field the provider sent and lies
\* in the window.
RowInstant(row, from, to) ==
    IF row.form = "date" THEN (InstantOf(row, from, to) \div DAY) * DAY
    ELSE InstantOf(row, from, to)

RowIsUsable(row, from, to, hasVolume) ==
    /\ row.bad = "none" \/ (row.bad = "v" /\ ~hasVolume)
    /\ from <= RowInstant(row, from, to)
    /\ RowInstant(row, from, to) <= to

\* well-formed rows outside the window
OutsideRows == {row \in GoodRows : row.pos \in {"before", "after"}}

\* bodies with rows of which none is usable
FinnhubBodiesWithoutUsableRow(st) ==
    UNION {{FinnhubCandleBody(rows, "full", st.from, st.to) : rows \in [1..k -> OutsideRows]} :
              k \in 1..MaxRows}
TwelveDataBodiesWithoutUsableRow(st) ==
    UNION {{TwelveDataCandleBody(rows, TRUE, st.from, st.to) : rows \in [1..k -> OutsideRows]} :
              k \in 1..MaxRows}
AlphaVantageBodiesWithoutUsableRow(st) ==
    UNION {{AlphaVantageBody(rows, "6", st.range, st.from, st.to) :
               rows \in {x \in [1..k -> OutsideRows] : DistinctKeys(x, st.from, st.to)}} :
              k \in 1..MaxRows}

\* Alpha Vantage bodies that hold the series of the request's range with at
\* least one usable row
AlphaVantageBodiesWithUsableRow(st) ==
    UNION {{AlphaVantageBody(rows, "6", st.range, st.from, st.to) :
               rows \in {x \in [1..k -> GoodRows] :
                            /\ DistinctKeys(x, st.from, st.to)
                            /\ \E i \in 1..k : RowIsUsable(x[i], st.from, st.to, TRUE)}} :
              k \in 1..MaxRows}
    \cup {AlphaVantageBody(<<LastRow, other>>, volumeKey, st.range, st.from, st.to) :
             other \in BrokenRows \cup DateRows, volumeKey \in {"6", "5", "none"}}

\* row i of a payload is what the entry of an Alpha Vantage series says
FromAlphaEntry(payload, i, entry, st) ==
    \E row \in GoodRows \cup BrokenRows \cup DateRows, volumeKey \in {"6", "5", "none"} :
        /\ entry = AlphaSeriesRow(row, st.from, st.to, volumeKey)
        /\ RowIsUsable(row, st.from, st.to, volumeKey # "none")
        /\ payload.t[i] = Fin(RowInstant(row, st.from, st.to))
        /\ payload.o[i] = Fin(FieldNumber("o"))
        /\ payload.h[i] = Fin(FieldNumber("h"))
        /\ payload.l[i] = Fin(FieldNumber("l"))
        /\ payload.c[i] = Fin(FieldNumber("c"))
        /\ payload.v[i] = Fin(IF volumeKey = "none" THEN 0 ELSE FieldNumber("v"))

\* C2: in a candle request in which Finnhub and Twelve Data have both been
\* called and have answered with a failure, and Alpha Vantage has answered
\* with the series of the range holding at least one usable row, the response
\* is 200 with provider "alphavantage", every row of its arrays is a usable
\* row of the Alpha Vantage series, and providerAttempts is exactly
\* (finnhub error, twelvedata error, alphavantage ok).
C2_AlphaVantageLastResort ==
    \A r \in RequestSlots :
        LET st == req[r]
        IN (/\ st.kind = "candles"
            /\ Len(st.answers) = 3
            /\ st.answers[1].provider = "finnhub"
            /\ st.answers[1].res \in FinnhubCandleFailures
            /\ st.answers[2].provider = "twelvedata"
            /\ st.answers[2].res \in TwelveDataCandleFailures
            /\ st.answers[3].provider = "alphavantage"
            /\ st.answers[3].res \in AlphaVantageBodiesWithUsableRow(st))
           => /\ st.pc = "done"
              /\ st.response.status = 200
              /\ st.response.provider = "alphavantage"
              /\ st.response.cacheHit = "false"
              /\ Len(st.response.candles.t) >= 1
              /\ \A i \in 1..Len(st.response.candles.t) :
                    \E j \in 1..Len(st.answers[3].res.json.series) :
                        FromAlphaEntry(st.response.candles, i,
                                       st.answers[3].res.json.series[j], st)
              /\ Outline(st.response.providerAttempts)
                    = <<<<"finnhub", "error">>, <<"twelvedata", "error">>,
                        <<"alphavantage", "ok">>>>

\* Finnhub answered {s: "no_data"}, Twelve Data a status "error" body, and
\* Alpha Vantage a series with two usable rows, which the response carries
C2_Witness ==
    \E r \in RequestSlots :
        /\ req[r].kind = "candles"
        /\ Len(req[r].answers) = 3
        /\ req[r].answers[1].res
              = Http(OkStatus, FinnhubCandleObject("no_data", <<>>, 0, 0, FALSE, FALSE, NoMessage))
        /\ req[r].answers[2].res
              = Http(OkStatus, TwelveDataCandleObject("error", ShortUpstreamMessage, FALSE,
                                                      <<>>, 0, 0, TRUE))
        /\ req[r].answers[3].res \in AlphaVantageBodiesWithUsableRow(req[r])
        /\ req[r].response.status = 200
        /\ Len(req[r].response.candles.t) = 2

\* the 200 responses of the candle handler
CandleSuccesses == {r \in RequestSlots : req[r].kind = "candles" /\ req[r].response.status = 200}

\* C6: in every 200 response of the candle handler, fresh or served from the
\* cache, t[i] < t[i+1] for every i.
C6_StrictlyAscending ==
    \A r \in CandleSuccesses :
        LET t == req[r].response.candles.t
        IN \A i \in 1..(Len(t) - 1) : t[i].n < t[i + 1].n

\* the order normalizeRows does establish: t[i] <= t[i+1]
C6_Ascending ==
    \A r \in CandleSuccesses :
        LET t == req[r].response.candles.t
        IN \A i \in 1..(Len(t) - 1) : t[i].n <= t[i + 1].n

\* a response of two rows whose upstream body listed them latest first
C6_Witness ==
    \E r \in CandleSuccesses :
        /\ Len(req[r].response.candles.t) = 2
        /\ req[r].response.candles.t[1].n < req[r].response.candles.t[2].n
        /\ req[r].answers[Len(req[r].answers)].res
              \in {FinnhubCandleBody(<<[pos |-> "last", form |-> "datetime", bad |-> "none"],
                                       [pos |-> "first", form |-> "datetime", bad |-> "none"]>>,
                                     "full", req[r].from, req[r].to)}

\* the request whose fetch produced the payload of a 200 response: the request
\* itself, or for a response served from the cache a request that stored it
ProducersOf(r) ==
    IF req[r].response.cacheHit = "true"
    THEN {s \in CandleSuccesses :
             /\ req[s].response.cacheHit = "false"
             /\ req[s].response.candles = req[r].response.candles}
    ELSE {r}

\* C7: the arrays of every 200 candle response have one length, at least 1,
\* hold finite numbers only, and every t lies in the window [from, to] of the
\* request whose fetch produced the payload; and a provider whose body held
\* rows none of which is usable has an error attempt in the request and no ok
\* attempt.
C7_RowsFiniteAndInWindow ==
    /\ \A r \in CandleSuccesses :
          LET p == req[r].response.candles
          IN /\ Len(p.t) >= 1
             /\ \A f \in {"o", "h", "l", "c", "v"} : Len(p[f]) = Len(p.t)
             /\ \A f \in {"t", "o", "h", "l", "c", "v"} :
                   \A i \in 1..Len(p.t) : p[f][i].k = "fin"
             /\ \E s \in ProducersOf(r) :
                   \A i \in 1..Len(p.t) : req[s].from <= p.t[i].n /\ p.t[i].n <= req[s].to
    /\ \A r \in RequestSlots :
          LET st == req[r]
          IN st.kind = "candles" =>
                \A i \in 1..Len(st.answers) :
                    st.answers[i].res \in FinnhubBodiesWithoutUsableRow(st)
                                          \cup TwelveDataBodiesWithoutUsableRow(st)
                                          \cup AlphaVantageBodiesWithoutUsableRow(st)
                    => AttemptsOf(st.providerAttempts, st.answers[i].provider) = {"error"}

\* a 200 response of a later provider after Finnhub's body held only rows
\* outside the window
C7_Witness ==
    \E r \in CandleSuccesses :
        /\ Len(req[r].answers) >= 2
        /\ req[r].answers[1].res \in FinnhubBodiesWithoutUsableRow(req[r])
        /\ req[r].response.provider # "finnhub"

----------------------------------------------------------------------------
(* Properties of the provider chains of GET /stocks/{symbol} and GET /candles *)

\* the priority order the handlers are to follow
PriorityOrder(kind) ==
    IF kind = "stocks" THEN <<"finnhub", "twelvedata">>
    ELSE <<"finnhub", "twelvedata", "alphavantage">>

\* the place of a provider in the order of a chain
PlaceOf(kind, provider) ==
    CHOOSE i \in 1..Len(PriorityOrder(kind)) : PriorityOrder(kind)[i] = provider

ChainRequests == {r \in RequestSlots : req[r].kind \in {"stocks", "candles"}}

\* the records of the log that carry a request id and a route
RecordsOf(requestId, route) ==
    LET Mine(record) == record.requestId = requestId /\ record.route = route
    IN SelectSeq(records, Mine)

\* `short` can be had from `long` by leaving entries out
RECURSIVE IsSubsequence(_, _)
IsSubsequence(short, long) ==
    IF short = <<>> THEN TRUE
    ELSE IF long = <<>> THEN FALSE
    ELSE IF Head(short) = Head(long) THEN IsSubsequence(Tail(short), Tail(long))
    ELSE IsSubsequence(short, Tail(long))

\* the number of attempts the requests in `slots` hold
RECURSIVE AttemptCount(_)
AttemptCount(slots) ==
    IF slots = {} THEN 0
    ELSE LET r == CHOOSE x \in slots : TRUE
         IN Len(req[r].providerAttempts) + AttemptCount(slots \ {r})

\* C3: at every moment of a quote or candle request, providerAttempts lists
\* the providers of the chain in priority order from the first on; every entry
\* but the last is an error or skipped, and after an ok entry nothing follows;
\* fetches go out in priority order, to a provider only when every provider
\* before it has its entry, and to none once an entry is ok; the log holds
\* the entries of providerAttempts in their order, and as many records as the
\* requests hold entries, so none for a provider not listed; a 200 response
\* not served from the cache ends with an ok entry and names its provider.
C3_PriorityOrderStopAtFirstSuccess ==
    \A r \in ChainRequests :
        LET st == req[r]
            order == PriorityOrder(st.kind)
            attempts == st.providerAttempts
            n == Len(attempts)
        IN /\ n <= Len(order)
           /\ \A i \in 1..n : attempts[i].provider = order[i]
           /\ \A i \in 1..(n - 1) : attempts[i].status \in {"error", "skipped"}
           /\ \A i \in 1..Len(st.calls) :
                 LET place == PlaceOf(st.kind, st.calls[i])
                 IN /\ place <= (IF st.pc = "await" THEN n + 1 ELSE n)
                    /\ (place <= n) => (attempts[place].status # "skipped")
                    /\ (i > 1) => (PlaceOf(st.kind, st.calls[i - 1]) <= place)
           /\ (n >= 1 /\ attempts[n].status = "ok") => st.pc = "done"
           /\ IsSubsequence(attempts,
                            [i \in 1..Len(RecordsOf(st.requestId, RouteOf(st.kind))) |->
                               LET record == RecordsOf(st.requestId, RouteOf(st.kind))[i]
                               IN [provider |-> record.provider, status |-> record.status,
                                   latencyMs |-> record.latencyMs, error |-> record.error]])
           /\ Len(records) = AttemptCount(RequestSlots)
           /\ st.pc = "done" => st.response.providerAttempts
                                   = (IF st.response.status = 400 \/ st.response.cacheHit = "true"
                                      THEN <<>> ELSE attempts)
           /\ (st.response.status = 200 /\ st.response.cacheHit # "true")
              => /\ n >= 1
                 /\ attempts[n].status = "ok"
                 /\ st.response.provider = attempts[n].provider
                 /\ st.kind = "candles" => st.response.candles.provider = attempts[n].provider

\* a candle request that Twelve Data answered after Finnhub was skipped, with
\* Alpha Vantage configured and left alone
C3_Witness ==
    \E r \in ChainRequests :
        /\ req[r].kind = "candles"
        /\ KeyOf("alphavantage") \in env
        /\ req[r].response.status = 200
        /\ Outline(req[r].providerAttempts) = <<<<"finnhub", "skipped">>, <<"twelvedata", "ok">>>>
        /\ req[r].calls = <<"twelvedata">>

\* Answers that are a failure of the provider: a transport error, a status
\* that is not 2xx, a body that is no object or reports an error, a quote
\* whose price is not above zero, candle rows of which none is usable. The
\* second answer of Finnhub in a quote request is that of its profile call,
\* which fails by a transport error only.
FailureAnswers(st, k) ==
    IF st.kind = "stocks"
    THEN IF k > 1 /\ st.answers[k].provider = "finnhub"
         THEN {NetError}
         ELSE {NetError, Http("429", BodyNull), Http(OkStatus, BodyScalar)}
              \cup FinnhubQuotesPriced(ZeroOrNonFinitePrices \cup NegativePrices)
              \cup TwelveDataQuotesPriced(ZeroOrNonFinitePrices \cup NegativePrices)
    ELSE FinnhubCandleFailures \cup TwelveDataCandleFailures \cup AlphaVantageFailures
         \cup FinnhubBodiesWithoutUsableRow(st) \cup TwelveDataBodiesWithoutUsableRow(st)
         \cup AlphaVantageBodiesWithoutUsableRow(st)

\* every provider of the chain has no key or has answered with a failure
AllUnavailable(st) ==
    \A i \in 1..Len(PriorityOrder(st.kind)) :
        LET provider == PriorityOrder(st.kind)[i]
        IN \/ KeyOf(provider) \notin env
           \/ \E k \in 1..Len(st.answers) :
                 /\ st.answers[k].provider = provider
                 /\ st.answers[k].res \in FailureAnswers(st, k)

\* C4: a quote or candle request every provider of which has no key or has
\* answered with a failure ends with status 502, a providers map whose keys
\* are exactly the providers of the chain (2 for quotes, 3 for candles), each
\* with the reason of its entry, and providerAttempts listing every provider
\* of the chain in priority order, none of them ok: skipped without a key,
\* error with one.
C4_AggregateFailure ==
    \A r \in ChainRequests :
        LET st == req[r]
            order == PriorityOrder(st.kind)
        IN (st.symbol # <<>> /\ AllUnavailable(st))
           => /\ st.pc = "done"
              /\ st.response.status = 502
              /\ DOMAIN st.response.providers = {order[i] : i \in 1..Len(order)}
              /\ Cardinality(DOMAIN st.response.providers) = (IF st.kind = "stocks" THEN 2 ELSE 3)
              /\ Outline(st.response.providerAttempts)
                    = [i \in 1..Len(order) |->
                         <<order[i], IF KeyOf(order[i]) \in env THEN "error" ELSE "skipped">>]
              /\ \A i \in 1..Len(order) :
                    Slice(st.response.providers[order[i]], 300)
                       = st.response.providerAttempts[i].error

\* a candle request that ended 502 after one provider was skipped and two
\* had failed
C4_Witness ==
    /\ \E r \in ChainRequests :
          /\ req[r].kind = "candles"
          /\ req[r].response.status = 502
          /\ Outline(req[r].response.providerAttempts)
                = <<<<"finnhub", "error">>, <<"twelvedata", "skipped">>,
                    <<"alphavantage", "error">>>>
          /\ AllUnavailable(req[r])

----------------------------------------------------------------------------
(* Properties of the candle cache *)

\* the writes of `key` among the first n entries of the history
WritesBefore(key, n) ==
    {i \in 1..(n - 1) : lookups[i].op = "set" /\ lookups[i].key = key}

\* the latest of them
LastWriteBefore(key, n) ==
    CHOOSE i \in WritesBefore(key, n) : \A k \in WritesBefore(key, n) : k <= i

\* a lookup served from the cache is answered with the payload: status 200,
\* cacheHit true, the provider of the payload, no attempt, no upstream call
ServedFromCache(n) ==
    LET st == req[lookups[n].slot]
    IN /\ lookups[n].op = "hit"
       /\ st.pc = "done"
       /\ st.response.status = 200
       /\ st.response.cacheHit = "true"
       /\ st.response.candles = lookups[n].payload
       /\ st.response.provider = lookups[n].payload.provider
       /\ st.response.providerAttempts = <<>>
       /\ st.providerAttempts = <<>>
       /\ st.calls = <<>>
       /\ st.answers = <<>>

\* C5 as stated: a request that looks up (symbol, range) after a request for
\* the same pair has succeeded, and before the expiry of the entry that
\* request wrote, is served from the cache with the payload and provider of
\* that first response, without attempt, upstream call or log record.
C5_SamePayloadAsFirstResponse ==
    \A n \in 1..Len(lookups) :
        \A i \in WritesBefore(lookups[n].key, n) :
            (lookups[n].op # "set" /\ lookups[n].at < lookups[i].expires)
            => /\ ServedFromCache(n)
               /\ lookups[n].payload = lookups[i].payload
               /\ Len(records) = AttemptCount(RequestSlots)

\* C5, amended: such a request is served from the cache with the payload and
\* provider of the latest successful fetch of the pair, which is the first
\* response's unless another request for the pair has completed its own fetch
\* since; without attempt, upstream call or log record.
C5_PayloadOfLatestFetch ==
    \A n \in 1..Len(lookups) :
        \A i \in WritesBefore(lookups[n].key, n) :
            (lookups[n].op # "set" /\ lookups[n].at < lookups[i].expires)
            => /\ ServedFromCache(n)
               /\ lookups[n].payload = lookups[LastWriteBefore(lookups[n].key, n)].payload
               /\ \E s \in RequestSlots :
                     /\ req[s].response.cacheHit = "false"
                     /\ req[s].response.candles = lookups[n].payload
               /\ Len(records) = AttemptCount(RequestSlots)

\* a request served from the cache one millisecond before the expiry of the
\* entry, after two requests for the pair had each written their own payload
C5_Witness ==
    \E n \in 1..Len(lookups) :
        /\ lookups[n].op = "hit"
        /\ Cardinality(WritesBefore(lookups[n].key, n)) = 2
        /\ \E i \in WritesBefore(lookups[n].key, n) :
              /\ lookups[i].payload # lookups[n].payload
              /\ lookups[n].at = lookups[i].expires - 1

----------------------------------------------------------------------------
(* Properties of GET /search *)

\* the q parameters that are missing, empty or made of white space only
BlankQueries ==
    {q \in RawQueries : q = Absent \/ \A i \in 1..Len(q) : q[i] \in WhiteSpace}

\* the number of records the search requests in `slots` have appended: the
\* attempts they hold, and while they wait the attempts of the adapters that
\* have settled
RECURSIVE SearchLogged(_)
SearchLogged(slots) ==
    IF slots = {} THEN 0
    ELSE LET r == CHOOSE x \in slots : TRUE
         IN Len(req[r].providerAttempts)
            + (IF req[r].pc = "await" THEN Cardinality(DOMAIN req[r].outcomes) ELSE 0)
            + SearchLogged(slots \ {r})

\* C9: a search request whose q is missing, empty or white space only is
\* answered with status 200 and result [] whatever credentials are configured;
\* it carries no error, no providers map and no meta, it starts no adapter and
\* makes no provider call, and the log holds only the records of the other
\* requests, so it has appended none, not even a skipped one.
C9_EmptyQueryNoProviderCall ==
    /\ \A r \in RequestSlots :
          (req[r].kind = "search" /\ req[r].raw \in BlankQueries) =>
             /\ req[r].pc = "done"
             /\ req[r].response = [NoResponse EXCEPT !.status = 200]
             /\ req[r].response.result = <<>>
             /\ req[r].calls = <<>> /\ req[r].tasks = <<>> /\ req[r].answers = <<>>
             /\ req[r].providerAttempts = <<>>
             /\ req[r].requestId = <<>>
    /\ Len(records) = SearchLogged({r \in RequestSlots : req[r].kind = "search"
                                                          /\ req[r].raw \notin BlankQueries})

\* a white-space-only query answered while both credentials are configured
C9_Witness ==
    \E r \in RequestSlots :
       /\ req[r].kind = "search" /\ req[r].raw = <<" ", " ">>
       /\ req[r].pc = "done" /\ req[r].response.status = 200
       /\ env = {KeyOf("finnhub"), KeyOf("twelvedata")}

\* the answers a search adapter throws on, and those it returns rows for
SearchFailuresOf(provider) ==
    IF provider = "finnhub" THEN FinnhubSearchFailures ELSE TwelveDataSearchFailures

\* the providers of the request whose call was answered with a failure, and
\* those whose call was answered otherwise
FailedProviders(st) ==
    {st.answers[k].provider : k \in {i \in 1..Len(st.answers) :
         st.answers[i].res \in SearchFailuresOf(st.answers[i].provider)}}
SucceededProviders(st) ==
    {st.answers[k].provider : k \in {i \in 1..Len(st.answers) :
         st.answers[i].res \notin SearchFailuresOf(st.answers[i].provider)}}

\* the rows of an answer
RowsOf(provider, res) ==
    IF res.net = "ok" /\ res.json.shape = "object" /\ res.json.isArray
    THEN (IF provider = "finnhub" THEN res.json.result ELSE res.json.data)
    ELSE <<>>

\* the symbols the providers that succeeded have offered
OfferedSymbols(st) ==
    UNION {{sanitizeSymbol(RowsOf(st.answers[k].provider, st.answers[k].res)[i].symbol) :
               i \in {j \in 1..Len(RowsOf(st.answers[k].provider, st.answers[k].res)) :
                        RowsOf(st.answers[k].provider, st.answers[k].res)[j].symbol # Absent}} :
           k \in {i \in 1..Len(st.answers) :
                    st.answers[i].provider \in SucceededProviders(st)}}

\* the ranking of what the providers that succeeded returned, Finnhub first
RankedOfSucceeded(st) ==
    LET AnswerOf(p) == st.answers[CHOOSE k \in 1..Len(st.answers) :
                                     st.answers[k].provider = p].res
        ItemsOf(p) == IF p \notin SucceededProviders(st) THEN <<>>
                      ELSE IF p = "finnhub" THEN searchFinnhub(st.query, AnswerOf(p)).items
                      ELSE searchTwelveData(st.query, AnswerOf(p)).items
        items == ItemsOf("finnhub") \o ItemsOf("twelvedata")
        cleaned == [i \in 1..Len(items) |-> sanitizeCandidate(items[i])]
        Passed(c) == c.ok
        kept == SelectSeq(cleaned, Passed)
    IN rankAndDeduplicate([i \in 1..Len(kept) |-> kept[i].item], st.query, st.limit)

HasAttempt(attempts, provider, status) ==
    \E i \in 1..Len(attempts) : attempts[i].provider = provider /\ attempts[i].status = status

\* C10: a search request with a non-empty query that has been answered is
\* answered 502 exactly when no provider call succeeded (every configured
\* provider failed, or none is configured); the 502 carries result [], the
\* error "Search provider unavailable" and a providers map with an entry for
\* each of the two providers; otherwise the answer is 200 without error and
\* providers map, and its result is the ranking of the candidates of the
\* providers that succeeded, every symbol in it offered by one of them, be the
\* result empty or not. Either way meta.providerAttempts has an error entry
\* for each provider that failed, an ok entry for each that succeeded and a
\* skipped entry for each without a credential, and only configured providers
\* were called.
C10_FailureIffNoProviderSucceeded ==
    \A r \in RequestSlots :
       (req[r].kind = "search" /\ req[r].pc = "done" /\ req[r].raw \notin BlankQueries) =>
          LET st == req[r]
              out == st.response
              all == {SearchChain[i] : i \in 1..Len(SearchChain)}
              configured == {p \in all : KeyOf(p) \in env}
          IN /\ out.status \in {200, 502}
             /\ (out.status = 502) <=> (SucceededProviders(st) = {})
             /\ (SucceededProviders(st) = {}) <=>
                   (configured = {} \/ FailedProviders(st) = configured)
             /\ out.status = 502 =>
                   /\ out.result = <<>>
                   /\ out.error = "Search provider unavailable"
                   /\ DOMAIN out.providers = all
             /\ out.status = 200 =>
                   /\ out.error = "" /\ out.providers = EmptyMap
                   /\ out.result = RankedOfSucceeded(st)
                   /\ \A i \in 1..Len(out.result) : out.result[i].symbol \in OfferedSymbols(st)
             /\ out.hasMeta /\ out.requestId = st.requestId
             /\ Len(out.providerAttempts) = Len(SearchChain)
             /\ {st.calls[i] : i \in 1..Len(st.calls)} = configured
             /\ FailedProviders(st) \cup SucceededProviders(st) = configured
             /\ \A p \in FailedProviders(st) : HasAttempt(out.providerAttempts, p, "error")
             /\ \A p \in SucceededProviders(st) : HasAttempt(out.providerAttempts, p, "ok")
             /\ \A p \in all \ configured : HasAttempt(out.providerAttempts, p, "skipped")

\* Finnhub failed, Twelve Data succeeded, and the answer is a 200 with results
\* that lists Finnhub's error attempt
C10_Witness ==
    \E r \in RequestSlots :
       /\ req[r].kind = "search" /\ req[r].pc = "done"
       /\ "finnhub" \in FailedProviders(req[r])
       /\ "twelvedata" \in SucceededProviders(req[r])
       /\ req[r].response.status = 200
       /\ req[r].response.result # <<>>
       /\ HasAttempt(req[r].response.providerAttempts, "finnhub", "error")

\* a provider succeeded with nothing to show, and the answer is a 200 with an
\* empty result
C10_EmptySuccessReached ==
    \E r \in RequestSlots :
       /\ req[r].kind = "search" /\ req[r].pc = "done"
       /\ SucceededProviders(req[r]) # {}
       /\ req[r].response.status = 200
       /\ req[r].response.result = <<>>

\* every configured provider failed and the answer is the 502
C10_AllFailedReached ==
    \E r \in RequestSlots :
       /\ req[r].kind = "search" /\ req[r].pc = "done"
       /\ FailedProviders(req[r]) = {"finnhub", "twelvedata"}
       /\ req[r].response.status = 502

----------------------------------------------------------------------------
(* Properties of the search ranker *)

\* the places of the list, other than that of the candidate added last, that
\* hold the same candidate
OriginalsOfAdded ==
    IF call.fn = "rankAndDeduplicate" /\ call.at > 0
    THEN {k \in 1..Len(call.candidates) :
             k # call.at /\ call.candidates[k] = call.candidates[call.at]}
    ELSE {}

\* the entries of the output that show the candidate added last
ShowingAdded ==
    LET added == sanitizeCandidate(call.candidates[call.at]).item
    IN {i \in 1..Len(call.output) :
           /\ call.output[i].symbol = added.symbol
           /\ call.output[i].description = added.description}

\* C11 as stated: when the ranker is given a list that holds a second copy of
\* one of its candidates, wherever in the list the copy stands, it returns
\* what it returns for the list without the copy, and the candidate is in the
\* output at most once.
C11_DuplicateLeavesOutputUnchanged ==
    OriginalsOfAdded # {} =>
       /\ call.output = call.before
       /\ Cardinality(ShowingAdded) <= 1

\* C11 amended: the candidate is in the output at most once wherever the copy
\* stands, and the output is that of the list without the copy when the copy
\* stands after the candidate it copies.
C11_LaterDuplicateLeavesOutputUnchanged ==
    OriginalsOfAdded # {} =>
       /\ Cardinality(ShowingAdded) <= 1
       /\ (\E k \in OriginalsOfAdded : k < call.at) => call.output = call.before

\* a copy was put after its original, among other candidates, and the
\* candidate is in the output
C11_Witness ==
    /\ \E k \in OriginalsOfAdded : k < call.at
    /\ Len(call.candidates) = 3
    /\ Cardinality(ShowingAdded) = 1
    /\ Len(call.output) = 2

\* The company a candidate stands for, told from its description as a reader
\* does: the name without its trailing corporate suffix, and the base ticker
\* where what is left of the name has fewer than three characters.
CompanyNamed(description, symbol) ==
    IF description \in {<<"A", "p", "p", "l", "e", " ", "I", "n", "c">>, <<"A", "p", "p", "l", "e", " ", "I", "n", "c", "o", "r", "p", "o", "r", "a", "t", "e", "d">>} THEN <<"a", "p", "p", "l", "e">>
    ELSE IF description \in {<<"3", "M", " ", "C", "o">>, <<"3", "M", " ", "C", "o", "m", "p", "a", "n", "y">>}
    THEN (IF symbol \in {<<"M", "M", "M">>, <<"M", "M", "M", ".", "D", "E">>} THEN <<"M", "M", "M">> ELSE symbol)
    ELSE description

\* the output entry the ranker makes of a sanitized candidate
EntryOf(item) ==
    [symbol |-> item.symbol,
     displaySymbol |-> IF item.displaySymbol # <<>> THEN item.displaySymbol ELSE item.symbol,
     description |-> item.description,
     type |-> formatType(item.type, item.exchange)]

\* the places of the sanitized list that hold candidates of the company of an
\* output entry
GroupOf(entry) ==
    {k \in 1..Len(call.sanitized) :
        CompanyNamed(call.sanitized[k].description, call.sanitized[k].symbol)
           = CompanyNamed(entry.description, entry.symbol)}

\* C12: no two entries of the ranker's output stand for the same company, and
\* an entry of the output is made of a candidate that no other sanitized
\* candidate of its company outscores; so "Apple Inc" under one symbol from
\* two providers is one entry, the higher-scored of the two.
C12_OnePerCompanyTheBest ==
    call.fn = "rankAndDeduplicate" =>
       /\ \A i, j \in 1..Len(call.output) :
             i # j => CompanyNamed(call.output[i].description, call.output[i].symbol)
                         # CompanyNamed(call.output[j].description, call.output[j].symbol)
       /\ \A i \in 1..Len(call.output) :
             \E k \in GroupOf(call.output[i]) :
                /\ EntryOf(call.sanitized[k]) = call.output[i]
                /\ \A m \in GroupOf(call.output[i]) :
                      scoreCandidate(call.sanitized[m], call.query)
                         <= scoreCandidate(call.sanitized[k], call.query)

\* "Apple Inc" under AAPL came from both providers, and the one entry of the
\* output is Twelve Data's, which scores higher for its exchange
C12_Witness ==
    /\ call.fn = "rankAndDeduplicate"
    /\ \E i, j \in 1..Len(call.candidates) :
          call.candidates[i] = AppleOfFinnhub /\ call.candidates[j] = AppleOfTwelveData
    /\ scoreCandidate(sanitizeCandidate(AppleOfTwelveData).item, call.query)
          > scoreCandidate(sanitizeCandidate(AppleOfFinnhub).item, call.query)
    /\ call.output = <<EntryOf(sanitizeCandidate(AppleOfTwelveData).item)>>

\* the limit parameters that are missing or hold no finite number
LimitsWithoutNumber == {LimitAbsent, LimitJunk, LimitInfinity}

\* C13: the ranker's output never holds two entries of one symbol and never
\* more entries than the effective limit; the effective limit is a whole
\* number from 1 to 25, and it is 10 when the limit parameter is missing or
\* holds no finite number.
C13_UniqueSymbolsWithinLimit ==
    call.fn = "rankAndDeduplicate" =>
       /\ \A i, j \in 1..Len(call.output) :
             i # j => call.output[i].symbol # call.output[j].symbol
       /\ Len(call.output) <= call.limit
       /\ call.limit \in 1..25
       /\ call.rawLimit \in LimitsWithoutNumber => call.limit = 10
       /\ call.rawLimit = LimitInt(99) => call.limit = 25
       /\ call.rawLimit = LimitInt(0) => call.limit = 1
       /\ call.rawLimit = LimitHalf(2) => call.limit = 2

\* three companies under three symbols pass sanitation and the limit of 2
\* caps the output
C13_Witness ==
    /\ call.fn = "rankAndDeduplicate"
    /\ call.rawLimit = LimitHalf(2)
    /\ Cardinality({call.sanitized[k].symbol : k \in 1..Len(call.sanitized)}) = 3
    /\ Cardinality({CompanyNamed(call.sanitized[k].description, call.sanitized[k].symbol) :
                       k \in 1..Len(call.sanitized)}) = 3
    /\ Len(call.output) = 2

\* two companies under one symbol: both are kept by the company pass, and the
\* symbol pass puts out one of them
C13_SharedSymbolReached ==
    /\ call.fn = "rankAndDeduplicate"
    /\ call.limit = 10
    /\ call.candidates = <<AppleOfFinnhub, AppleComputer>>
    /\ Len(applyScoreCutoff(SortByScore(ByCompany(Ranked(call.sanitized, call.query), <<>>)),
                            call.query, call.limit)) = 2
    /\ Len(call.output) = 1

----------------------------------------------------------------------------
(* Properties of the attempts of upstream calls *)

RouteOfRequest(st) == IF st.kind = "search" THEN SEARCH_ROUTE ELSE RouteOf(st.kind)

\* the providers whose adapter the request has invoked
Invoked(st) == {st.calls[i] : i \in 1..Len(st.calls)}

\* the providers whose adapter the request is waiting for
Awaited(st) ==
    IF st.pc # "await" THEN {}
    ELSE IF st.kind = "search" THEN Invoked(st) \ DOMAIN st.outcomes
    ELSE {ChainOf(st.kind)[st.current]}

Completed(st) == Invoked(st) \ Awaited(st)

IsCompletion(x) == x.status \in {"ok", "error"}

\* the completed attempts of a provider among `attempts`
CompletionsIn(attempts, provider) ==
    {i \in 1..Len(attempts) : attempts[i].provider = provider /\ IsCompletion(attempts[i])}

\* the number of adapters whose call has ended, over the requests `slots`
RECURSIVE CompletedCount(_)
CompletedCount(slots) ==
    IF slots = {} THEN 0
    ELSE LET r == CHOOSE x \in slots : TRUE
         IN Cardinality(Completed(req[r])) + CompletedCount(slots \ {r})

\* C14: every upstream call of a search, quote or candle request that has
\* ended left exactly one ok or error record in the log, a call still awaited
\* left none, and the response of a request lists exactly one ok or error
\* attempt for each provider the request called, equal in provider, status,
\* latency and error to a record of the log.
C14_OneAttemptPerUpstreamCall ==
    /\ Cardinality({i \in 1..Len(records) : IsCompletion(records[i])})
          = CompletedCount(RequestSlots)
    /\ \A r \in RequestSlots :
          LET st == req[r]
          IN /\ \A provider \in Completed(st) :
                   \E i \in 1..Len(records) :
                      /\ IsCompletion(records[i])
                      /\ records[i].provider = provider
                      /\ records[i].requestId = st.requestId
                      /\ records[i].route = RouteOfRequest(st)
             /\ (st.pc = "done") =>
                   /\ \A provider \in Invoked(st) :
                         /\ Cardinality(CompletionsIn(st.response.providerAttempts, provider)) = 1
                         /\ \A i \in CompletionsIn(st.response.providerAttempts, provider) :
                               \E k \in 1..Len(records) :
                                  records[k] = toRecord(st.response.providerAttempts[i],
                                                        st.requestId, RouteOfRequest(st),
                                                        records[k].at)
                   /\ \A i \in 1..Len(st.response.providerAttempts) :
                         IsCompletion(st.response.providerAttempts[i])
                            => st.response.providerAttempts[i].provider \in Invoked(st)

\* a request of the kind answered after calling n providers, the last of
\* which ended with `status`
AnsweredAfter(kind, n, status) ==
    \E r \in RequestSlots :
       /\ req[r].kind = kind /\ req[r].pc = "done"
       /\ Cardinality(Invoked(req[r])) = n
       /\ Len(req[r].response.providerAttempts) > 0
       /\ req[r].response.providerAttempts[Len(req[r].response.providerAttempts)].status = status

C14_Witness == AnsweredAfter("candles", 3, "error")
C14_QuoteReached == AnsweredAfter("stocks", 2, "ok")
C14_SearchReached == AnsweredAfter("search", 2, "error")

----------------------------------------------------------------------------
(* Properties of the log *)

\* the last n elements of a sequence
LastOf(s, n) == SubSeq(s, Len(s) - n + 1, Len(s))

\* C15: the log never holds more than 1000 records, and after n appends it
\* is the most recent min(n, 1000) of the records appended, in the order of
\* their appends.
C15_LogIsTheMostRecentRecords ==
    (call.fn = "appendRecord") =>
       /\ Len(records) <= MAX_RECORDS
       /\ records = LastOf(call.appended, Min(Len(call.appended), MAX_RECORDS))

\* three records have been appended to a full log
C15_Witness ==
    /\ call.fn = "appendRecord"
    /\ Len(call.appended) = MAX_RECORDS + 3
    /\ Len(records) = MAX_RECORDS
    /\ records[1] = call.appended[4]
    /\ records[MAX_RECORDS].status = "skipped"

----------------------------------------------------------------------------
(* Properties of providers without a key *)

ChainOfRequest(st) == IF st.kind = "search" THEN SearchChain ELSE ChainOf(st.kind)

\* the place of a provider in a chain, 0 when it is not of the chain
PlaceIn(chain, provider) ==
    IF \E i \in 1..Len(chain) : chain[i] = provider
    THEN CHOOSE i \in 1..Len(chain) : chain[i] = provider
    ELSE 0

\* The request has come to the `if (<provider>Key)` of the provider: a search
\* with a query comes to both; a quote or candle request comes to the
\* providers before the one it waits for, to all of them when it ends with
\* 502, and to those before the one that answered when it ends with 200
\* from upstream.
ReachedProvider(st, provider) ==
    LET chain == ChainOfRequest(st)
        place == PlaceIn(chain, provider)
    IN /\ st.kind # "none" /\ place > 0
       /\ IF st.kind = "search" THEN st.query # <<>>
          ELSE IF st.pc = "await" THEN place < st.current
          ELSE /\ st.pc = "done"
               /\ st.response.cacheHit # "true"
               /\ \/ st.response.status = 502
                  \/ /\ st.response.status = 200
                     /\ place < PlaceIn(chain, st.response.provider)

\* "<KEY> missing"
KeyMissing(provider) ==
    CASE provider = "finnhub" -> Msg(<<"FINNHUB_API_KEY missing">>, 23)
      [] provider = "twelvedata" -> Msg(<<"TWELVEDATA_API_KEY missing">>, 26)
      [] provider = "alphavantage" -> Msg(<<"ALPHAVANTAGE_API_KEY missing">>, 28)

IsSkipOf(x, provider) ==
    /\ x.provider = provider /\ x.status = "skipped" /\ x.latencyMs = 0
    /\ x.error = KeyMissing(provider)

PlacesOf(attempts, provider) == {i \in 1..Len(attempts) : attempts[i].provider = provider}

\* C16: a provider whose key is absent is never called; every request that
\* comes to it has exactly one attempt of it, skipped, with latency 0 and the
\* reason "<KEY> missing", in its response and in the log; a request that
\* does not come to it has none; no record or attempt of it has another status.
C16_AbsentKeySkippedNeverCalled ==
    \A provider \in Providers :
       (KeyOf(provider) \notin env) =>
          /\ \A k \in 1..Len(records) :
                (records[k].provider = provider) => IsSkipOf(records[k], provider)
          /\ Cardinality({k \in 1..Len(records) : records[k].provider = provider})
                = Cardinality({r \in RequestSlots : ReachedProvider(req[r], provider)})
          /\ \A r \in RequestSlots :
                LET st == req[r]
                    shown == IF st.pc = "done" THEN st.response.providerAttempts
                             ELSE st.providerAttempts
                IN /\ provider \notin Invoked(st)
                   /\ \A i \in PlacesOf(shown, provider) : IsSkipOf(shown[i], provider)
                   /\ Cardinality(PlacesOf(shown, provider))
                         = (IF ReachedProvider(st, provider) THEN 1 ELSE 0)
                   /\ ReachedProvider(st, provider) =>
                         \E k \in 1..Len(records) :
                            /\ IsSkipOf(records[k], provider)
                            /\ records[k].requestId = st.requestId
                            /\ records[k].route = RouteOfRequest(st)

\* a request of the kind has ended after its chain came to a provider
\* without key behind one that was called
SkippedBehindCalled(kind, called, skipped) ==
    \E r \in RequestSlots :
       LET st == req[r]
       IN /\ st.kind = kind /\ st.pc = "done"
          /\ KeyOf(skipped) \notin env
          /\ called \in Invoked(st)
          /\ ReachedProvider(st, skipped)
          /\ Cardinality(PlacesOf(st.response.providerAttempts, skipped)) = 1

C16_Witness == SkippedBehindCalled("stocks", "finnhub", "twelvedata")
C16_CandlesReached == SkippedBehindCalled("candles", "twelvedata", "finnhub")
C16_SearchReached == SkippedBehindCalled("search", "twelvedata", "finnhub")

\* a quote request whose chain ended at Finnhub has no attempt of Twelve
\* Data, whose key is absent
C16_NotReachedReached ==
    \E r \in RequestSlots :
       /\ req[r].kind = "stocks" /\ req[r].pc = "done"
       /\ req[r].response.status = 200
       /\ KeyOf("twelvedata") \notin env
       /\ PlacesOf(req[r].response.providerAttempts, "twelvedata") = {}

----------------------------------------------------------------------------
(* Properties of requests without a symbol *)

\* a symbol parameter that is missing, empty or made of white space
BlankSymbol(raw) ==
    \/ raw = Absent
    \/ \A i \in 1..Len(raw) : raw[i] \in {" ", "\t", "\n"}

RejectedForSymbol(st) ==
    /\ st.pc = "done"
    /\ st.response.status = 400
    /\ st.response.error = "Missing symbol"
    /\ st.response.providerAttempts = <<>>
    /\ st.calls = <<>> /\ st.answers = <<>>

\* a quote or candle request arrives without a symbol
BlankSymbolArrives(r) ==
    /\ req[r].pc = "idle" /\ req'[r].pc # "idle"
    /\ req'[r].kind \in {"stocks", "candles"}
    /\ BlankSymbol(req'[r].raw)

\* C17: a quote or candle request whose symbol is missing, empty or white
\* space is answered in the step it arrives in with status 400 and error
\* "Missing symbol", with no upstream call, no cache lookup or cache write
\* and no record appended to the log; and only such a request gets that
\* answer.
C17_BlankSymbolRejectedAtOnce ==
    /\ [](\A r \in RequestSlots :
            (req[r].kind \in {"stocks", "candles"})
               => (BlankSymbol(req[r].raw) <=> RejectedForSymbol(req[r])))
    /\ [][\A r \in RequestSlots :
            BlankSymbolArrives(r)
               => /\ RejectedForSymbol(req'[r])
                  /\ records' = records
                  /\ lookups' = lookups
                  /\ cache' = cache]_vars

RejectedReached(kind, raw) ==
    \E r \in RequestSlots :
       /\ req[r].kind = kind /\ req[r].raw = raw
       /\ RejectedForSymbol(req[r])
       /\ records = <<>> /\ lookups = <<>>

C17_Witness == RejectedReached("candles", <<" ">>)
C17_QuoteAbsentReached == RejectedReached("stocks", Absent)
C17_CandlesEmptyReached == RejectedReached("candles", <<>>)

----------------------------------------------------------------------------
(* Properties of the reasons of failures *)

FailureResponses == {r \in RequestSlots : req[r].pc = "done" /\ req[r].response.status = 502}

\* C18: in every failure response of search, quote and candles each reason
\* of the providers map has at most 300 characters.
C18_ReasonsWithinLimit ==
    \A r \in FailureResponses :
       \A provider \in DOMAIN req[r].response.providers :
          req[r].response.providers[provider].len <= 300

\* the reasons of the attempts, in the responses and in the log, have at
\* most 300 characters
C18_AttemptReasonsWithinLimit ==
    /\ \A k \in 1..Len(records) : records[k].error.len <= 300
    /\ \A r \in RequestSlots :
          \A i \in 1..Len(req[r].response.providerAttempts) :
             req[r].response.providerAttempts[i].error.len <= 300

\* a request has ended in failure after a provider answered with a message
\* of more than 300 characters
C18_Witness ==
    \E r \in FailureResponses :
       \E provider \in DOMAIN req[r].response.providers :
          /\ req[r].response.providers[provider].len > 300
          /\ \E i \in 1..Len(req[r].response.providerAttempts) :
                /\ req[r].response.providerAttempts[i].provider = provider
                /\ req[r].response.providerAttempts[i].error.len = 300

----------------------------------------------------------------------------
(* Properties of the profile call of the Finnhub quote adapter *)

\* the quote requests whose Finnhub profile call, issued after a quote with
\* a valid price, has been answered
ProfileAnswered ==
    {r \in RequestSlots :
        /\ req[r].kind = "stocks"
        /\ Len(req[r].answers) >= 2
        /\ req[r].answers[2].provider = "finnhub"}

ServedByFinnhub(st) ==
    /\ st.pc = "done"
    /\ st.response.status = 200
    /\ st.response.provider = "finnhub"
    /\ Len(st.response.providerAttempts) = 1
    /\ st.response.providerAttempts[1].provider = "finnhub"
    /\ st.response.providerAttempts[1].status = "ok"

\* C19: whatever the answer to the profile call (a status that is not 2xx,
\* a body that is not JSON, a transport error), the request is answered 200
\* with provider finnhub and one ok attempt.
C19_ProfileFailureNeverFailsAdapter ==
    \A r \in ProfileAnswered : ServedByFinnhub(req[r])

\* a profile call answered over HTTP, whatever its status and body, leaves
\* the request served by Finnhub, with a null profile when the body is not
\* a JSON object
C19_ProfileHttpFailureTolerated ==
    \A r \in ProfileAnswered :
       (req[r].answers[2].res.net # "error")
          => /\ ServedByFinnhub(req[r])
             /\ (req[r].answers[2].res.json.shape # "object")
                   => req[r].response.profile.shape = "null"

\* the profile call met a transport error and Finnhub's attempt is an error
C19_Witness ==
    \E r \in ProfileAnswered :
       /\ req[r].answers[2].res = NetError
       /\ req[r].pc = "done"
       /\ req[r].response.providerAttempts[1].provider = "finnhub"
       /\ req[r].response.providerAttempts[1].status = "error"
       /\ req[r].response.status = 502

C19_NonOkProfileServedReached ==
    \E r \in ProfileAnswered :
       /\ req[r].answers[2].res = Http("429", BodyNull)
       /\ ServedByFinnhub(req[r])

----------------------------------------------------------------------------
(* The scorer called on its own: scoreCandidate on a candidate whose
   description grows by one word at a time, for queries of one word of 1 to
   5 letters *)

ScoreQueries == {<<"a">>, <<"a", "p">>, <<"a", "p", "p">>, <<"p", "p", "l">>, <<"a", "p", "p", "l">>, <<"p", "p", "l", "e">>, <<"a", "p", "p", "l", "e">>}
ScoreWords ==
    {<<"P", "i", "n", "e", "a", "p", "p", "l", "e">>, <<"S", "n", "a", "p", "p", "l", "e">>, <<"A", "p", "p", "l", "e">>, <<"A", "p", "p", "l", "e", "t", "o", "n">>, <<"G", "r", "a", "p", "p", "l", "e">>, <<"E", "n", "e", "r", "g", "y">>, <<"I", "n", "c">>}

InitScore ==
    /\ now = StartOfTime
    /\ ticks = 0
    /\ env = {}
    /\ records = <<>>
    /\ cache = EmptyCache
    /\ req = [r \in RequestSlots |-> IdleRequest]
    /\ lookups = <<>>
    /\ \E query \in ScoreQueries :
          call = [fn |-> "scoreCandidate", query |-> query, words |-> <<>>,
                  description |-> <<>>, part |-> 0, score |-> 0]

\* scoreCandidate is called on a candidate of Finnhub under the symbol ZZZ
\* whose description has one more word
ScoreWith(word) ==
    /\ call.fn = "scoreCandidate"
    /\ Len(call.words) < MaxWords
    /\ LET description == IF call.words = <<>> THEN word
                          ELSE call.description \o <<Space>> \o word
           desc == normalizeText(description)
           qNorm == normalizeText(call.query)
       IN call' = [call EXCEPT
                     !.words = Append(@, word),
                     !.description = description,
                     !.part = DescriptionScore(desc, NonEmpty(Split(desc, Space)), qNorm,
                                               NonEmpty(Split(qNorm, Space))),
                     !.score = scoreCandidate(Candidate("finnhub", <<"Z", "Z", "Z">>, description,
                                                        <<"C", "o", "m", "m", "o", "n", " ", "S", "t", "o", "c", "k">>, <<>>),
                                              call.query)]
    /\ UNCHANGED <<now, ticks, env, records, cache, req, lookups>>

NextScore == \E word \in ScoreWords : ScoreWith(word)

SpecScore == InitScore /\ [][NextScore]_vars

----------------------------------------------------------------------------
(* Properties of the range parameter *)

\* the canonical range of each parameter of RangeInputs
CanonicalRange(raw) ==
    CASE raw \in {<<"2", "4", "h">>, <<"1", "D">>, <<"1", "d">>, <<"3", "h">>} -> "24H"
      [] raw \in {<<"1", "w">>} -> "1W"
      [] raw \in {<<"1", "M">>} -> "1M"
      [] raw \in {<<"6", "M">>} -> "6M"
      [] raw \in {<<"1", "y">>, <<"Y", "t", "d">>, <<" ", "y", "t", "d", " ">>} -> "1Y"
      [] raw \in {<<"5", "Y">>} -> "5Y"
      [] raw \in {Absent, <<>>, <<"3", "m">>, <<"m", "a", "x">>, <<"w", "e", "e", "k">>} -> "3M"

CandleRequests == {r \in RequestSlots : req[r].kind = "candles" /\ req[r].symbol # <<>>}

\* the request was answered by upstream and its payload is in the cache
ServedFromUpstream(st) ==
    /\ st.kind = "candles" /\ st.pc = "done"
    /\ st.response.status = 200 /\ st.response.cacheHit = "false"

\* a candle request arrives
CandleRequestArrives(r) ==
    /\ req[r].pc = "idle" /\ req'[r].pc # "idle"
    /\ req'[r].kind = "candles" /\ req'[r].symbol # <<>>

\* C20: the range of a candle request is the canonical range of its
\* parameter (1D and 3H are 24H, YTD is 1Y, in any case of the letters; a
\* missing or unknown parameter is 3M) and is never refused; the answer
\* carries it, the cache is read and written under it, and a request that
\* arrives while the answer to a request of the same canonical range is
\* cached is served from the cache with that answer, without upstream call.
C20_RangeCanonicalised ==
    /\ [](\A r \in CandleRequests :
            LET st == req[r]
                range == CanonicalRange(st.rawRange)
            IN /\ st.range = range
               /\ (st.pc = "done")
                     => /\ st.response.status \in {200, 502}
                        /\ st.response.range = range
                        /\ (st.response.status = 200) => st.response.candles.range = range
               /\ \A k \in 1..Len(lookups) :
                     (lookups[k].slot = r) => lookups[k].key = <<st.symbol, range>>
               /\ ServedFromUpstream(st) => <<st.symbol, range>> \in DOMAIN cache)
    /\ [][\A r, s \in RequestSlots :
            (/\ CandleRequestArrives(r)
             /\ ServedFromUpstream(req[s])
             /\ req[s].symbol = req'[r].symbol
             /\ CanonicalRange(req[s].rawRange) = CanonicalRange(req'[r].rawRange))
               => /\ req'[r].pc = "done"
                  /\ req'[r].response.cacheHit = "true"
                  /\ req'[r].response.status = 200
                  /\ req'[r].response.candles = req[s].response.candles
                  /\ req'[r].calls = <<>>]_vars

\* a request for the alias 1d has been served from the entry written for a
\* request for 24h
C20_Witness ==
    \E r, s \in RequestSlots :
       /\ ServedFromUpstream(req[s]) /\ req[s].rawRange = <<"2", "4", "h">>
       /\ req[r].kind = "candles" /\ req[r].rawRange = <<"1", "d">>
       /\ req[r].pc = "done" /\ req[r].response.cacheHit = "true"
       /\ req[r].response.range = "24H"

\* a request with an unknown range has been answered for 3M
C20_UnknownReached ==
    \E r \in RequestSlots :
       /\ ServedFromUpstream(req[r]) /\ req[r].rawRange = <<"m", "a", "x">>
       /\ req[r].response.range = "3M"

----------------------------------------------------------------------------
(* Properties of the order of calls within a request *)

\* The fetch number k of a request continues the adapter call of the fetch
\* before it: the profile fetch of the Finnhub quote adapter, issued after
\* its quote fetch has given a quote.
ContinuesCall(st, k) ==
    /\ st.kind = "stocks" /\ k > 1
    /\ st.calls[k] = "finnhub" /\ st.calls[k - 1] = "finnhub"
    /\ Len(st.answers) >= k - 1
    /\ finnhubQuoteCall(st.answers[k - 1].res, now).ok

\* the fetches of a request that begin an adapter call
CallStarts(st) == {k \in 1..Len(st.calls) : ~ContinuesCall(st, k)}

\* C21: in a quote or candle request at most one fetch is in flight; no
\* provider's adapter is called twice; and when the adapter of a provider has
\* been called, every provider before it in the chain has one attempt, of
\* status error or skipped, and none of them is called after it.
C21_CallsSequentialNeverRetried ==
    \A r \in ChainRequests :
       LET st == req[r]
           order == PriorityOrder(st.kind)
           shown == IF st.pc = "done" THEN st.response.providerAttempts
                    ELSE st.providerAttempts
       IN /\ Len(st.calls) - Len(st.answers) \in {0, 1}
          /\ (Len(st.calls) - Len(st.answers) = 1) <=> (st.pc = "await")
          /\ \A j, k \in CallStarts(st) : (st.calls[j] = st.calls[k]) => (j = k)
          /\ \A j, k \in 1..Len(st.calls) :
                (j < k) => PlaceIn(order, st.calls[j]) <= PlaceIn(order, st.calls[k])
          /\ \A k \in CallStarts(st) :
                \A i \in 1..(PlaceIn(order, st.calls[k]) - 1) :
                   /\ Cardinality(PlacesOf(shown, order[i])) = 1
                   /\ \A a \in PlacesOf(shown, order[i]) :
                         shown[a].status \in {"error", "skipped"}

\* a candle request has called its three providers one after the other
C21_Witness ==
    \E r \in ChainRequests :
       /\ req[r].kind = "candles"
       /\ req[r].calls = <<"finnhub", "twelvedata", "alphavantage">>
       /\ req[r].pc = "await"
       /\ Len(req[r].answers) = 2

\* a quote request has called Twelve Data after the two fetches of Finnhub
C21_QuoteReached ==
    \E r \in ChainRequests :
       /\ req[r].kind = "stocks"
       /\ req[r].calls = <<"finnhub", "finnhub", "twelvedata">>
       /\ CallStarts(req[r]) = {1, 3}

----------------------------------------------------------------------------
(* Properties of the fan-out of a search request *)

SearchRequests ==
    {r \in RequestSlots : req[r].kind = "search" /\ req[r].raw \notin BlankQueries}

ConfiguredForSearch == {p \in {SearchChain[i] : i \in 1..Len(SearchChain)} : KeyOf(p) \in env}

AnsweredProviders(st) == {st.answers[k].provider : k \in 1..Len(st.answers)}

\* C22: a search request has started the adapter of every provider with a
\* key in the step it arrives in, before any answer; it has no response and
\* no result while an adapter it started has not settled; once it has a
\* response every adapter has settled, with an ok or an error attempt; and
\* when one adapter failed and the other succeeded the response is a 200
\* with the ranking of the rows of the one that succeeded.
C22_FanOutThenJoin ==
    /\ [](\A r \in SearchRequests :
            LET st == req[r]
            IN /\ Invoked(st) = ConfiguredForSearch
               /\ Len(st.calls) = Cardinality(ConfiguredForSearch)
               /\ AnsweredProviders(st) \subseteq Invoked(st)
               /\ Len(st.answers) = Cardinality(AnsweredProviders(st))
               /\ (AnsweredProviders(st) # Invoked(st))
                     <=> (st.pc = "await" /\ st.response = NoResponse)
               /\ (AnsweredProviders(st) = Invoked(st))
                     <=> (st.pc = "done" /\ st.response.status \in {200, 502})
               /\ (st.pc = "done") =>
                     /\ \A p \in FailedProviders(st) :
                           HasAttempt(st.response.providerAttempts, p, "error")
                     /\ \A p \in SucceededProviders(st) :
                           HasAttempt(st.response.providerAttempts, p, "ok")
                     /\ (SucceededProviders(st) # {}) =>
                           /\ st.response.status = 200
                           /\ st.response.result = RankedOfSucceeded(st))
    /\ [][\A r \in RequestSlots :
            (req[r].pc = "idle" /\ req'[r].kind = "search" /\ req'[r].raw \notin BlankQueries)
               => /\ Invoked(req'[r]) = ConfiguredForSearch
                  /\ req'[r].answers = <<>>]_vars

\* Finnhub failed, Twelve Data answered after it with rows, and the result
\* holds a row of Twelve Data
C22_Witness ==
    \E r \in SearchRequests :
       /\ req[r].pc = "done"
       /\ Len(req[r].answers) = 2
       /\ req[r].answers[1].provider = "finnhub"
       /\ FailedProviders(req[r]) = {"finnhub"}
       /\ SucceededProviders(req[r]) = {"twelvedata"}
       /\ Len(req[r].response.result) > 0

\* Twelve Data has settled while the call of Finnhub is in flight
C22_OutOfOrderReached ==
    \E r \in SearchRequests :
       /\ req[r].pc = "await"
       /\ AnsweredProviders(req[r]) = {"twelvedata"}
       /\ Invoked(req[r]) = {"finnhub", "twelvedata"}

----------------------------------------------------------------------------
(* Properties of a cancelled search request *)

\* C23: after a search request has been cancelled none of its provider
\* calls runs to completion: it receives no further answer and no further
\* attempt of it is completed.
C23_InFlightCallsAborted ==
    \A r \in RequestSlots :
       req[r].cancelled.is =>
          /\ Len(req[r].answers) = req[r].cancelled.answers
          /\ Cardinality(DOMAIN req[r].outcomes) = req[r].cancelled.answers

\* a request cancelled with both calls in flight has received both answers,
\* has recorded both attempts and has built its response
C23_Witness ==
    \E r \in RequestSlots :
       /\ req[r].cancelled = [is |-> TRUE, answers |-> 0]
       /\ Len(req[r].answers) = 2
       /\ req[r].pc = "done"
       /\ Cardinality({k \in 1..Len(records) : IsCompletion(records[k])}) = 2

----------------------------------------------------------------------------
(* Properties of candle requests that race for the cache *)

\* the places in `lookups` of the cache read and of the cache write of a request
ReadsOf(r) == {n \in 1..Len(lookups) : lookups[n].slot = r /\ lookups[n].op \in {"hit", "miss"}}
WritesOf(r) == {n \in 1..Len(lookups) : lookups[n].slot = r /\ lookups[n].op = "set"}

\* the requests r and s have read the cache under the same key, each before
\* the write of the other, and both have written
Raced(r, s) ==
    /\ r # s
    /\ ReadsOf(r) # {} /\ ReadsOf(s) # {} /\ WritesOf(r) # {} /\ WritesOf(s) # {}
    /\ \A a \in ReadsOf(r), b \in ReadsOf(s), c \in WritesOf(r), d \in WritesOf(s) :
          /\ lookups[a].key = lookups[b].key
          /\ a < d /\ b < c

\* the payload the request fetched itself: what the adapter of its last
\* answer gave
FetchedBy(st) ==
    candleAdapter(st.answers[Len(st.answers)].provider, st, st.answers[Len(st.answers)].res).payload

\* C24: a cache read that no write of its key precedes is a miss; of two
\* candle requests of one key that each read before the other wrote, both
\* missed when no write preceded them, each is answered 200 with cacheHit
\* false and the payload it fetched itself, each wrote once, and as long as
\* nobody else writes the key afterwards the cache holds under the key the
\* payload and the expiry of the later of the two writes.
C24_ConcurrentMissesLastWriteWins ==
    /\ \A n \in 1..Len(lookups) :
          (lookups[n].op \in {"hit", "miss"} /\ WritesBefore(lookups[n].key, n) = {})
             => lookups[n].op = "miss"
    /\ \A r \in RequestSlots : Cardinality(ReadsOf(r)) <= 1 /\ Cardinality(WritesOf(r)) <= 1
    /\ \A r, s \in RequestSlots :
          Raced(r, s) =>
             LET c == CHOOSE n \in WritesOf(r) : TRUE
                 d == CHOOSE n \in WritesOf(s) : TRUE
                 last == IF c > d THEN c ELSE d
                 key == lookups[c].key
             IN /\ \A q \in {r, s} :
                      /\ req[q].pc = "done"
                      /\ req[q].response.status = 200
                      /\ req[q].response.cacheHit = "false"
                      /\ req[q].response.candles = FetchedBy(req[q])
                      /\ \A n \in WritesOf(q) : lookups[n].payload = FetchedBy(req[q])
                /\ key \in DOMAIN cache
                /\ cache[key].payload.s = "ok"
                /\ (\A n \in (last + 1)..Len(lookups) :
                       ~(lookups[n].op = "set" /\ lookups[n].key = key))
                      => /\ cache[key].payload = lookups[last].payload
                         /\ cache[key].expires = lookups[last].expires

\* two requests that both missed have written payloads of different
\* providers, and the cache holds the one written last, by Twelve Data
\* over Finnhub's
C24_Witness ==
    \E r, s \in RequestSlots :
       /\ Raced(r, s)
       /\ \A a \in ReadsOf(r) \cup ReadsOf(s) : lookups[a].op = "miss"
       /\ req[r].response.provider = "finnhub"
       /\ req[s].response.provider = "twelvedata"
       /\ \A c \in WritesOf(r), d \in WritesOf(s) : c < d
       /\ cache[cacheKeyOf(req[r].symbol, req[r].range)].payload = req[s].response.candles
       /\ req[r].response.candles # req[s].response.candles

----------------------------------------------------------------------------
(* Properties of the expiry of cache entries *)

CanonicalRanges == <<"24H", "1W", "1M", "3M", "6M", "1Y", "5Y">>

\* the seconds an entry of the range lives
SecondsToLive(range) ==
    CASE range = "24H" -> 20
      [] range = "1W" -> 45
      [] range = "1M" -> 60
      [] range \in {"3M", "6M", "1Y", "5Y"} -> 180

WritesOfKey(key) == {n \in 1..Len(lookups) : lookups[n].op = "set" /\ lookups[n].key = key}

\* C25: ttlSeconds is 20, 45, 60, 180, 180, 180, 180 over the ranges from
\* 24H to 5Y, never decreasing; every write sets expires to its instant plus
\* the TTL of its range; a cache read after a write of its key is a hit
\* exactly when its instant is strictly before the expires of the latest
\* such write, and otherwise the request goes upstream and is not answered
\* with cacheHit true; and the cache holds under each key the entry of the
\* latest write, so a fetch after the expiry supersedes the stale entry.
C25_ServedStrictlyBeforeExpiry ==
    /\ \A i \in 1..Len(CanonicalRanges) :
          /\ ttlSeconds(CanonicalRanges[i]) = SecondsToLive(CanonicalRanges[i])
          /\ (i > 1) => ttlSeconds(CanonicalRanges[i - 1]) <= ttlSeconds(CanonicalRanges[i])
    /\ \A n \in 1..Len(lookups) :
          LET key == lookups[n].key
              st == req[lookups[n].slot]
          IN /\ (lookups[n].op = "set")
                   => lookups[n].expires = lookups[n].at + SecondsToLive(key[2]) * 1000
             /\ (lookups[n].op \in {"hit", "miss"} /\ WritesBefore(key, n) # {})
                   => LET last == lookups[LastWriteBefore(key, n)]
                      IN IF lookups[n].at < last.expires
                         THEN /\ lookups[n].op = "hit"
                              /\ lookups[n].payload = last.payload
                              /\ st.response.cacheHit = "true"
                         ELSE /\ lookups[n].op = "miss"
                              /\ st.calls # <<>>
                              /\ st.response.cacheHit # "true"
    /\ \A key \in DOMAIN cache :
          /\ WritesOfKey(key) # {}
          /\ LET last == lookups[CHOOSE n \in WritesOfKey(key) :
                                    \A m \in WritesOfKey(key) : m <= n]
             IN cache[key] = [expires |-> last.expires, payload |-> last.payload]

\* a request that read the cache at the very instant an entry expired has
\* missed, has fetched, and its write has superseded the entry
C25_Witness ==
    \E i, n, m \in 1..Len(lookups) :
       /\ i < n /\ n < m
       /\ lookups[i].op = "set" /\ lookups[n].op = "miss" /\ lookups[m].op = "set"
       /\ lookups[n].key = lookups[i].key /\ lookups[m].key = lookups[i].key
       /\ lookups[n].at = lookups[i].expires
       /\ lookups[m].slot = lookups[n].slot
       /\ cache[lookups[i].key].expires = lookups[m].expires
       /\ lookups[m].expires = lookups[i].expires + 20000

\* a request that read the cache one millisecond before the expiry was
\* served from it
C25_LastInstantReached ==
    \E i, n \in 1..Len(lookups) :
       /\ i < n
       /\ lookups[i].op = "set" /\ lookups[n].op = "hit"
       /\ lookups[n].key = lookups[i].key
       /\ lookups[n].at = lookups[i].expires - 1

----------------------------------------------------------------------------
(* Properties of what writes the cache *)

\* the request ends in this step
Ends(r) == req[r].pc # "done" /\ req'[r].pc = "done"

\* C26: no step removes an entry of the cache; a step that changes the
\* cache is the end of a request answered 200 from upstream, and it changes
\* the entry of the key of that request only, to the payload answered; the
\* end of a request with 400, 502 or a cache hit leaves the cache as it is.
C26_OnlySuccessfulFetchWritesOwnKey ==
    [][/\ DOMAIN cache \subseteq DOMAIN cache'
       /\ (cache' # cache) =>
             \E r \in RequestSlots :
                LET key == <<req'[r].symbol, req'[r].range>>
                IN /\ Ends(r)
                   /\ req'[r].kind = "candles"
                   /\ req'[r].response.status = 200
                   /\ req'[r].response.cacheHit = "false"
                   /\ \A k \in DOMAIN cache' \ {key} : k \in DOMAIN cache /\ cache'[k] = cache[k]
       /\ \A r \in RequestSlots :
             Ends(r) =>
                IF req'[r].response.status = 200 /\ req'[r].response.cacheHit = "false"
                THEN /\ <<req'[r].symbol, req'[r].range>> \in DOMAIN cache'
                     /\ cache'[<<req'[r].symbol, req'[r].range>>].payload
                           = req'[r].response.candles
                ELSE cache' = cache]_vars

\* a request that found a stale entry under its key has ended with 502 and
\* the entry is still in the cache, next to an entry of another key
C26_Witness ==
    \E i, n \in 1..Len(lookups) :
       /\ i < n
       /\ lookups[i].op = "set" /\ lookups[n].op = "miss"
       /\ lookups[n].key = lookups[i].key
       /\ lookups[n].at >= lookups[i].expires
       /\ req[lookups[n].slot].pc = "done"
       /\ req[lookups[n].slot].response.status = 502
       /\ cache[lookups[i].key] = [expires |-> lookups[i].expires, payload |-> lookups[i].payload]
       /\ cache[lookups[i].key].expires <= now

\* a request without symbol has ended with 400 while the cache has an entry
C26_RejectedReached ==
    \E r \in RequestSlots :
       /\ req[r].kind = "candles" /\ req[r].response.status = 400
       /\ DOMAIN cache # {}

\* a request was served from the cache and the entry kept its expiry
C26_HitReached ==
    \E i, n \in 1..Len(lookups) :
       /\ i < n
       /\ lookups[i].op = "set" /\ lookups[n].op = "hit"
       /\ lookups[n].key = lookups[i].key
       /\ lookups[n].at > lookups[i].at
       /\ cache[lookups[i].key].expires = lookups[i].expires
       /\ Cardinality(DOMAIN cache) = 2

----------------------------------------------------------------------------
(* Properties of the sanitisation of candidates *)

\* a candidate without type whose description names a kind of instrument
\* that is no stock
UntypedNonStock(candidate) ==
    /\ Trim(candidate.type) = <<>>
    /\ \E hint \in BLOCKED_TYPE_HINTS : Includes(normalizeText(candidate.description), hint)

Shows(output, candidate) ==
    \E k \in 1..Len(output) :
       /\ output[k].symbol = candidate.symbol
       /\ output[k].description = candidate.description

\* C27: a candidate whose type is empty and whose description contains one
\* of the disallowed keywords is not in the output of the ranker.
C27_UntypedNonStockRejected ==
    (call.fn = "rankAndDeduplicate") =>
       \A i \in 1..Len(call.candidates) :
          UntypedNonStock(call.candidates[i]) => ~Shows(call.output, call.candidates[i])

\* the Euro Currency Trust, offered without type, has passed the
\* sanitisation with the type "stock" and is in the output
C27_Witness ==
    /\ call.fn = "rankAndDeduplicate"
    /\ \E i \in 1..Len(call.candidates) :
          /\ call.candidates[i] = CurrencyTrust
          /\ UntypedNonStock(call.candidates[i])
    /\ \E k \in 1..Len(call.sanitized) :
          /\ call.sanitized[k].symbol = CurrencyTrust.symbol
          /\ call.sanitized[k].type = <<"s", "t", "o", "c", "k">>
    /\ Shows(call.output, CurrencyTrust)

\* stockTypeAllowed itself, given the empty type, refuses the description
C27_EmptyTypeRefusedByStockTypeAllowed ==
    ~stockTypeAllowed(<<>>, CurrencyTrust.description)

----------------------------------------------------------------------------
(* Properties of the score cutoff *)

\* the queries of CutoffQueries that have the shape of a ticker
TickerShaped(query) == query \in {<<"a", "a", "p", "l">>, <<"b", "r", "k", ".", "b">>}

\* the lead of the first candidate that makes a name query sharp
SharpMode(sorted, query) ==
    /\ ~TickerShaped(query)
    /\ Len(sorted) >= 2
    /\ sorted[1].score - sorted[2].score >= 500

FloorOf(sorted, query) ==
    IF TickerShaped(query) THEN Max(sorted[1].score - 520, 90)
    ELSE Max(sorted[1].score - 340, 180)

\* the number of candidates of a score at or above the floor
PassingFloor(sorted, query) ==
    Cardinality({i \in 1..Len(sorted) : sorted[i].score >= FloorOf(sorted, query)})

\* C28: outside sharp mode the cutoff returns the candidates at or above
\* the floor (top - 520 but at least 90 for a ticker query, top - 340 but at
\* least 180 for a name query), at most `limit` of them, when at least
\* min(limit, 3) candidates are there, and the first `limit` candidates
\* otherwise; so it returns at least min(limit, 3, number of candidates).
C28_ScoreFloorWithFallback ==
    (call.fn = "applyScoreCutoff" /\ call.sorted # <<>>
       /\ ~SharpMode(call.sorted, call.query)) =>
       LET sorted == call.sorted
           passing == PassingFloor(sorted, call.query)
           kept == IF passing >= Min(call.limit, 3) THEN Min(call.limit, passing)
                   ELSE Min(call.limit, Len(sorted))
       IN /\ call.output = SubSeq(sorted, 1, kept)
          /\ Len(call.output) >= Min(Min(call.limit, 3), Len(sorted))
          /\ Len(call.output) <= call.limit

\* two of four candidates are at the floor of a name query or above and the
\* limit is 10: the cutoff has fallen back to all four
C28_Witness ==
    /\ call.fn = "applyScoreCutoff"
    /\ call.query = <<"a", "p", "p", "l", "e", " ", "i", "n", "c">> /\ call.limit = 10
    /\ Len(call.sorted) = 4
    /\ call.sorted[1].score = 1000 /\ call.sorted[2].score = 660
    /\ call.sorted[3].score = 659
    /\ Len(call.output) = 4

\* three candidates at the floor of a ticker query or above, the fourth one
\* point below it: the cutoff has dropped the fourth
C28_FloorReached ==
    /\ call.fn = "applyScoreCutoff"
    /\ call.query = <<"a", "a", "p", "l">> /\ call.limit = 10
    /\ Len(call.sorted) = 4
    /\ call.sorted[1].score = 1000 /\ call.sorted[3].score = 480
    /\ call.sorted[4].score = 479
    /\ Len(call.output) = 3

\* a top score of 200 puts the floor of a ticker query at 90
C28_LowTopReached ==
    /\ call.fn = "applyScoreCutoff"
    /\ call.query = <<"b", "r", "k", ".", "b">> /\ call.limit = 10
    /\ Len(call.sorted) = 4
    /\ call.sorted[1].score = 200 /\ call.sorted[3].score = 90
    /\ call.sorted[4].score = 89
    /\ Len(call.output) = 3

----------------------------------------------------------------------------
(* Properties of the snapshot *)

\* the number of latencies of the group below v, and at v or below
Below(latencies, v) == Cardinality({i \in 1..Len(latencies) : latencies[i] < v})
AtOrBelow(latencies, v) == Cardinality({i \in 1..Len(latencies) : latencies[i] <= v})

\* v is the value at the 1-based rank of the latencies sorted ascending
AtRank(latencies, rank, v) ==
    Below(latencies, v) < rank /\ rank <= AtOrBelow(latencies, v)

LatenciesSeen(group) ==
    LET InGroup(record) == <<record.route, record.provider>> = group
        members == SelectSeq(call.seen, InGroup)
    IN [i \in 1..Len(members) |-> members[i].latencyMs]

\* C29: p95LatencyMs of every group of the snapshot is the value at rank
\* ceil(0.95 * n) of the n latencies of the group sorted ascending, and the
\* percentile of no latencies is 0.
C29_P95IsNearestRank ==
    (call.fn = "getObservabilitySnapshot") =>
       /\ percentile(<<>>, 95) = 0
       /\ \A group \in DOMAIN call.snapshot.providerMetrics :
             LET latencies == LatenciesSeen(group)
                 n == Len(latencies)
             IN /\ call.snapshot.providerMetrics[group].count = n
                /\ AtRank(latencies, (95 * n + 99) \div 100,
                          call.snapshot.providerMetrics[group].p95LatencyMs)

\* p95LatencyMs is the value at rank floor(0.95 * n) + 1, at most n
C29_P95IsRankAfterFloor ==
    (call.fn = "getObservabilitySnapshot") =>
       \A group \in DOMAIN call.snapshot.providerMetrics :
          LET latencies == LatenciesSeen(group)
              n == Len(latencies)
          IN AtRank(latencies, Min(n, (95 * n) \div 100 + 1),
                    call.snapshot.providerMetrics[group].p95LatencyMs)

\* twenty latencies of the quote group, nineteen of 5 ms and one of 9 ms:
\* the snapshot gives 9 ms where the value at rank 19 is 5 ms
C29_Witness ==
    /\ call.fn = "getObservabilitySnapshot"
    /\ <<STOCKS_ROUTE, "finnhub">> \in DOMAIN call.snapshot.providerMetrics
    /\ call.snapshot.providerMetrics[<<STOCKS_ROUTE, "finnhub">>].count = 20
    /\ call.snapshot.providerMetrics[<<STOCKS_ROUTE, "finnhub">>].p95LatencyMs = 9
    /\ AtRank(LatenciesSeen(<<STOCKS_ROUTE, "finnhub">>), 19, 5)

----------------------------------------------------------------------------
(* Properties of the window and the resolution of a range *)

\* the days a range looks back; a day has 86400 seconds
DaysBack(range) ==
    CASE range = "24H" -> 1
      [] range = "1W" -> 7
      [] range = "1M" -> 30
      [] range = "3M" -> 90
      [] range = "6M" -> 180
      [] range = "1Y" -> 365
      [] range = "5Y" -> 5 * 365

\* the spacing of the candles of a range
ResolutionClass(range) ==
    CASE range = "24H" -> "5-minute"
      [] range = "1W" -> "30-minute"
      [] range = "1M" -> "60-minute"
      [] range \in {"3M", "6M", "1Y"} -> "daily"
      [] range = "5Y" -> "weekly"

\* the word of each provider for a spacing: Finnhub's resolution, Twelve
\* Data's interval, Alpha Vantage's function and interval
FinnhubWord(class) ==
    CASE class = "5-minute" -> "5" [] class = "30-minute" -> "30" [] class = "60-minute" -> "60"
      [] class = "daily" -> "D" [] class = "weekly" -> "W"

TwelveDataWord(class) ==
    CASE class = "5-minute" -> "5min" [] class = "30-minute" -> "30min"
      [] class = "60-minute" -> "1h" [] class = "daily" -> "1day" [] class = "weekly" -> "1week"

AlphaVantageWord(class) ==
    CASE class = "5-minute" -> <<"TIME_SERIES_INTRADAY", "5min">>
      [] class = "30-minute" -> <<"TIME_SERIES_INTRADAY", "30min">>
      [] class = "60-minute" -> <<"TIME_SERIES_INTRADAY", "60min">>
      [] class = "daily" -> <<"TIME_SERIES_DAILY_ADJUSTED", "">>
      [] class = "weekly" -> <<"TIME_SERIES_WEEKLY_ADJUSTED", "">>

\* the spacing the provider being awaited is asked for
AskedOf(st) ==
    CASE CandlesChain[st.current] = "finnhub" -> finnhubResolution(st.range)
      [] CandlesChain[st.current] = "twelvedata" -> twelveDataInterval(st.range)
      [] OTHER -> <<alphaConfig(st.range).fn, alphaConfig(st.range).interval>>

WordOf(provider, class) ==
    CASE provider = "finnhub" -> FinnhubWord(class)
      [] provider = "twelvedata" -> TwelveDataWord(class)
      [] OTHER -> AlphaVantageWord(class)

\* the request has missed the cache and goes upstream
GoesUpstream(r) ==
    /\ req[r].pc = "idle" /\ req'[r].pc # "idle"
    /\ req'[r].kind = "candles" /\ req'[r].symbol # <<>>
    /\ Len(lookups') = Len(lookups) + 1 /\ lookups'[Len(lookups')].op = "miss"

\* C30: the window of a candle request that goes upstream ends at the second
\* of its arrival and begins 1 day (24H), 7 days (1W), 30 days (1M), 90 days
\* (3M), 180 days (6M), 365 days (1Y) or 5 * 365 days (5Y) earlier, and stays
\* so while the request runs; each provider is asked for the same spacing of
\* the range in its own words: 5 minutes for 24H, 30 minutes for 1W, 60
\* minutes for 1M, a day for 3M, 6M and 1Y, a week for 5Y.
C30_WindowAndResolutionByRange ==
    /\ [][\A r \in RequestSlots :
            GoesUpstream(r)
               => /\ req'[r].to = now \div 1000
                  /\ req'[r].from = req'[r].to - DaysBack(req'[r].range) * 86400]_vars
    /\ [](\A r \in CandleRequests :
            LET st == req[r]
                class == ResolutionClass(st.range)
            IN /\ (st.pc = "await")
                     => /\ st.to - st.from = DaysBack(st.range) * 86400
                        /\ AskedOf(st) = WordOf(CandlesChain[st.current], class)
               /\ ServedFromUpstream(st)
                     => /\ st.to - st.from = DaysBack(st.range) * 86400
                        /\ st.response.candles.resolution
                              = (IF st.response.provider = "alphavantage"
                                 THEN (IF class = "daily" THEN "D"
                                       ELSE IF class = "weekly" THEN "W"
                                       ELSE AlphaVantageWord(class)[2])
                                 ELSE WordOf(st.response.provider, class)))
    /\ [](\A i \in 1..Len(CanonicalRanges) :
            LET range == CanonicalRanges[i]
                class == ResolutionClass(range)
            IN /\ finnhubResolution(range) = FinnhubWord(class)
               /\ twelveDataInterval(range) = TwelveDataWord(class)
               /\ <<alphaConfig(range).fn, alphaConfig(range).interval>> = AlphaVantageWord(class))

\* a request for five years that arrived within a second, not at its start,
\* has been served by Alpha Vantage with weekly candles
C30_Witness ==
    \E r \in CandleRequests :
       /\ ServedFromUpstream(req[r])
       /\ req[r].range = "5Y"
       /\ req[r].response.provider = "alphavantage"
       /\ req[r].response.candles.resolution = "W"
       /\ req[r].to = 172800 /\ req[r].from = 172800 - 157680000
       /\ \E k \in 1..Len(lookups) :
             lookups[k].slot = r /\ lookups[k].op = "miss" /\ lookups[k].at % 1000 = 999

\* a request for a month is waiting for Twelve Data, asked for hourly candles
C30_MonthReached ==
    \E r \in CandleRequests :
       /\ req[r].pc = "await" /\ req[r].range = "1M"
       /\ CandlesChain[req[r].current] = "twelvedata"
       /\ req[r].to - req[r].from = 2592000

----------------------------------------------------------------------------
(* Properties of the shape of attempts *)

\* what an attempt must look like
WellFormedAttempt(attempt) ==
    /\ attempt.latencyMs >= 0
    /\ (attempt.status = "skipped") => attempt.latencyMs = 0
    /\ (attempt.status = "ok") => attempt.error = NoError
    /\ (attempt.status \in {"error", "skipped"})
          => attempt.error.len <= 300
    /\ attempt.status \in {"ok", "error", "skipped"}

\* C31: every attempt in the log and in a response has a latency of at
\* least 0 ms, of exactly 0 ms when skipped, no error when ok, and an error
\* of at most 300 characters when in error or skipped.
C31_AttemptsWellFormed ==
    /\ \A k \in 1..Len(records) : WellFormedAttempt(records[k])
    /\ \A r \in RequestSlots :
          \A i \in 1..Len(req[r].response.providerAttempts) :
             WellFormedAttempt(req[r].response.providerAttempts[i])

\* a search has ended whose first provider failed, after a millisecond, with
\* a message of more than 300 characters and whose second provider had no key
C31_Witness ==
    \E r \in RequestSlots :
       /\ req[r].kind = "search" /\ req[r].pc = "done"
       /\ \E i, j \in 1..Len(req[r].response.providerAttempts) :
             LET failed == req[r].response.providerAttempts[i]
                 skipped == req[r].response.providerAttempts[j]
             IN /\ failed.status = "error" /\ failed.error.len = 300 /\ failed.latencyMs = 1
                /\ skipped.status = "skipped" /\ skipped.latencyMs = 0
       /\ \E k \in 1..Len(records) : records[k].status = "error" /\ records[k].error.len = 300

\* a provider has answered a search after a millisecond
C31_SlowSuccessReached ==
    \E k \in 1..Len(records) : records[k].status = "ok" /\ records[k].latencyMs = 1

----------------------------------------------------------------------------
(* Properties of a search across the orders of arrival *)

\* what each provider answered, whatever the order
ContentsOf(st) == {<<st.answers[k].provider, st.answers[k].res>> : k \in 1..Len(st.answers)}

\* the providers in the order their answers arrived
ArrivalOrder(st) == SubSeq([k \in 1..Len(st.answers) |-> st.answers[k].provider],
                           1, Len(st.answers))

\* an attempt without its latency
Untimed(attempt) ==
    [provider |-> attempt.provider, status |-> attempt.status, error |-> attempt.error]

\* a response body without the request id and the latencies
BodyApartFromIdAndLatencies(response) ==
    [status |-> response.status, error |-> response.error, result |-> response.result,
     providers |-> response.providers, hasMeta |-> response.hasMeta,
     providerAttempts |-> SubSeq([i \in 1..Len(response.providerAttempts) |->
                                    Untimed(response.providerAttempts[i])],
                                 1, Len(response.providerAttempts))]

\* two search requests that have ended, with the same parameters and the
\* same answer of each provider
SameSearch(r, s) ==
    /\ req[r].kind = "search" /\ req[r].pc = "done"
    /\ req[s].kind = "search" /\ req[s].pc = "done"
    /\ req[r].raw = req[s].raw
    /\ req[r].limit = req[s].limit
    /\ ContentsOf(req[r]) = ContentsOf(req[s])

\* C32: two search requests with the same query, the same limit, the same
\* keys and the same answer of each provider have the same response body,
\* apart from the request id and the latencies, whichever answer arrived
\* first: the same result list and the same order of the attempts.
C32_SearchIndependentOfArrivalOrder ==
    \A r, s \in RequestSlots :
       SameSearch(r, s)
          => BodyApartFromIdAndLatencies(req[r].response)
                = BodyApartFromIdAndLatencies(req[s].response)

\* two such requests have ended whose answers arrived in opposite orders,
\* both providers having succeeded, with a result of two entries or more
C32_Witness ==
    \E r, s \in RequestSlots :
       /\ SameSearch(r, s)
       /\ ArrivalOrder(req[r]) = <<"finnhub", "twelvedata">>
       /\ ArrivalOrder(req[s]) = <<"twelvedata", "finnhub">>
       /\ SucceededProviders(req[r]) = {"finnhub", "twelvedata"}
       /\ Len(req[r].response.result) >= 2

\* two such requests have ended in failure, the answers in opposite orders
C32_FailureReached ==
    \E r, s \in RequestSlots :
       /\ SameSearch(r, s)
       /\ ArrivalOrder(req[r]) = <<"finnhub", "twelvedata">>
       /\ ArrivalOrder(req[s]) = <<"twelvedata", "finnhub">>
       /\ req[r].response.status = 502

----------------------------------------------------------------------------
(* Properties of the sharp mode of the score cutoff *)

\* 1 to `most` letters and digits
Alphanumeric(word, most) ==
    /\ Len(word) \in 1..most
    /\ \A i \in 1..Len(word) : word[i] \in LowerSet \cup UpperSet \cup DigitSet

\* a query of 1 to 6 letters and digits
ShortAlphanumeric(query) == Alphanumeric(query, 6)

\* a query of the shape of a ticker: 1 to 6 letters and digits, then
\* possibly a dot and 1 to 4 more
TickerShapedQuery(query) ==
    \/ ShortAlphanumeric(query)
    \/ \E k \in 2..(Len(query) - 1) :
          /\ query[k] = "."
          /\ Alphanumeric(SubSeq(query, 1, k - 1), 6)
          /\ Alphanumeric(SubSeq(query, k + 1, Len(query)), 4)

\* the first candidate leads the second by 500 or more
LeadsByFiveHundred(sorted) ==
    Len(sorted) >= 2 /\ sorted[1].score - sorted[2].score >= 500

\* the candidates at or above the floor of a ticker query
AtTickerFloor(sorted) ==
    Cardinality({i \in 1..Len(sorted) : sorted[i].score >= Max(sorted[1].score - 520, 90)})

\* C33: for a query that has not the shape of a ticker (a word of more than
\* 6 characters, or two words) whose first candidate leads the second by at least 500, the
\* cutoff returns the first candidate alone; a query of 1 to 6 letters and
\* digits, such as "apple", is a ticker query: whatever the lead, the
\* cutoff treats it by the floor of ticker queries and never by the band of
\* 160 below the top.
C33_SharpModeKeepsTheTopAlone ==
    (call.fn = "applyScoreCutoff" /\ call.sorted # <<>>) =>
       /\ (~TickerShapedQuery(call.query) /\ LeadsByFiveHundred(call.sorted))
             => call.output = <<call.sorted[1]>>
       /\ ShortAlphanumeric(call.query)
             => /\ isTickerLikeQuery(call.query)
                /\ LET passing == AtTickerFloor(call.sorted)
                       kept == IF passing >= Min(call.limit, 3) THEN Min(call.limit, passing)
                               ELSE Min(call.limit, Len(call.sorted))
                   IN call.output = SubSeq(call.sorted, 1, kept)

\* a query of 7 letters with scores 1000, 500, 480 and limit 10: the cutoff
\* has returned the first candidate alone
C33_Witness ==
    /\ call.fn = "applyScoreCutoff"
    /\ call.query = <<"a", "b", "c", "d", "e", "f", "g">> /\ call.limit = 10
    /\ Len(call.sorted) = 3
    /\ call.sorted[1].score = 1000 /\ call.sorted[2].score = 500
    /\ call.sorted[3].score = 480
    /\ Len(call.output) = 1

\* the query "apple" with the same scores and limit: the cutoff has
\* returned all three
C33_AppleReached ==
    /\ call.fn = "applyScoreCutoff"
    /\ call.query = <<"a", "p", "p", "l", "e">> /\ call.limit = 10
    /\ Len(call.sorted) = 3
    /\ call.sorted[1].score = 1000 /\ call.sorted[2].score = 500
    /\ call.sorted[3].score = 480
    /\ Len(call.output) = 3

----------------------------------------------------------------------------
(* Properties of the order of the search result *)

\* the scores of the sanitized candidates
ScoresOfSanitized ==
    {scoreCandidate(call.sanitized[k], call.query) : k \in 1..Len(call.sanitized)}

\* the score of an entry of the output: that of the best sanitized candidate
\* it is made of
EntryScore(entry) ==
    MaxOf({scoreCandidate(call.sanitized[k], call.query) :
              k \in {m \in 1..Len(call.sanitized) : EntryOf(call.sanitized[m]) = entry}})

\* C34: when a candidate passes sanitisation the ranker's output is not
\* empty, every entry is made of a sanitized candidate, the first entry is
\* made of a candidate of the highest score, and the scores of the entries
\* never rise along the output.
C34_TopKeptAndScoresFalling ==
    (call.fn = "rankAndDeduplicate" /\ call.sanitized # <<>>) =>
       /\ call.output # <<>>
       /\ \A i \in 1..Len(call.output) :
             \E k \in 1..Len(call.sanitized) : EntryOf(call.sanitized[k]) = call.output[i]
       /\ EntryScore(call.output[1]) = MaxOf(ScoresOfSanitized)
       /\ \A i \in 1..(Len(call.output) - 1) :
             EntryScore(call.output[i]) >= EntryScore(call.output[i + 1])

\* three candidates of three companies were given worst first; the output
\* holds fewer entries than candidates, the best first
C34_Witness ==
    /\ call.fn = "rankAndDeduplicate"
    /\ Len(call.sanitized) = 3
    /\ Len(call.output) \in {1, 2}
    /\ scoreCandidate(call.sanitized[1], call.query)
          < scoreCandidate(call.sanitized[2], call.query)
    /\ scoreCandidate(call.sanitized[2], call.query)
          < scoreCandidate(call.sanitized[3], call.query)
    /\ call.output[1] = EntryOf(call.sanitized[3])

\* every candidate scores below the floor of 90 and the output is not empty
C34_AllBelowFloorReached ==
    /\ call.fn = "rankAndDeduplicate"
    /\ Len(call.sanitized) >= 2
    /\ MaxOf(ScoresOfSanitized) < 90
    /\ Len(call.output) >= 2
    /\ EntryScore(call.output[1]) > EntryScore(call.output[2])

----------------------------------------------------------------------------
(* Properties of the recent calls of the snapshot *)

\* the most recent calls a limit parameter allows: min(max(floor(limit), 1),
\* 500), the parameter being 100 when absent; 500 for a parameter that is no
\* number
AllowedRecent(raw) ==
    CASE raw = LimitAbsent -> 100
      [] raw = LimitEmpty -> 1
      [] raw.form \in {"int", "half"} ->
            (IF raw.n < 1 THEN 1 ELSE IF raw.n > 500 THEN 500 ELSE raw.n)
      [] raw = LimitInfinity -> 500
      [] raw = LimitJunk -> 500

\* recentCalls are the last records of the log, the newest first
NewestFirst ==
    \A i \in 1..Len(call.snapshot.recentCalls) :
       /\ i <= Len(call.seen)
       /\ Untimed(call.snapshot.recentCalls[i]) = Untimed(call.seen[Len(call.seen) + 1 - i])
       /\ call.snapshot.recentCalls[i].latencyMs = call.seen[Len(call.seen) + 1 - i].latencyMs
       /\ call.snapshot.recentCalls[i].route = call.seen[Len(call.seen) + 1 - i].route

\* C35: whatever the limit parameter of GET /observability (absent, empty,
\* zero, negative, fractional, above 500, infinite or no number), recentCalls
\* holds at most min(max(floor(limit), 1), 500) records and never more than
\* 500, the newest first, and recentErrors holds at most 30 records.
C35_RecentCallsWithinLimit ==
    (call.fn = "observabilityGET") =>
       /\ Len(call.snapshot.recentCalls) <= AllowedRecent(call.rawLimit)
       /\ Len(call.snapshot.recentCalls) <= 500
       /\ NewestFirst
       /\ Len(call.snapshot.recentErrors) <= 30

\* for a limit parameter that is a number or absent recentCalls holds the
\* min(max(floor(limit), 1), 500) newest records, or the whole log when it
\* is shorter; for every parameter recentCalls is newest first and
\* recentErrors holds at most 30 records; for a parameter that is no number
\* recentCalls holds the whole log
C35_RecentCallsWithinLimitOfNumbers ==
    (call.fn = "observabilityGET") =>
       /\ (call.rawLimit # LimitJunk)
             => Len(call.snapshot.recentCalls)
                   = Min(AllowedRecent(call.rawLimit), Len(call.seen))
       /\ (call.rawLimit = LimitJunk) => Len(call.snapshot.recentCalls) = Len(call.seen)
       /\ NewestFirst
       /\ Len(call.snapshot.recentErrors) <= 30

\* the route was asked with a limit that is no number while the log held 503
\* records, and recentCalls holds all 503; more than 30 of them are errors
\* and recentErrors holds 30
C35_Witness ==
    /\ call.fn = "observabilityGET"
    /\ call.rawLimit = LimitJunk
    /\ Len(call.seen) = 503
    /\ Len(call.snapshot.recentCalls) = 503
    /\ Len(call.snapshot.recentErrors) = 30

\* the route was asked with a limit of 600 while the log held 503 records,
\* and recentCalls holds 500
C35_CapReached ==
    /\ call.fn = "observabilityGET"
    /\ call.rawLimit = LimitInt(600)
    /\ Len(call.seen) = 503
    /\ Len(call.snapshot.recentCalls) = 500

----------------------------------------------------------------------------
(* Properties of the correlation of the log with the responses *)

\* the attempts a request has made so far: those in its list and, while a
\* search waits, those its settled tasks hold
Held(st) ==
    Len(st.providerAttempts)
       + (IF st.kind = "search" /\ st.pc = "await" THEN Cardinality(DOMAIN st.outcomes) ELSE 0)

RECURSIVE HeldUpTo(_)
HeldUpTo(n) == IF n = 0 THEN 0 ELSE Held(req[n]) + HeldUpTo(n - 1)

\* the records a step appends to the log
AppendedByStep == SubSeq(records', Len(records) + 1, Len(records'))

\* C36: a step of a request appends to the log as many records as the
\* request gains attempts, each with the request's id and the route of its
\* handler, and no other step appends any; so the log holds exactly the
\* attempts of the requests, and a response with meta carries the id of its
\* request and as many attempts as the request appended records, also when
\* requests interleave.
C36_RecordsCorrelateWithResponses ==
    /\ [][/\ SubSeq(records', 1, Len(records)) = records
          /\ \A r \in RequestSlots :
                (req'[r] # req[r])
                   => /\ Held(req'[r]) - Held(req[r]) = Len(AppendedByStep)
                      /\ \A k \in 1..Len(AppendedByStep) :
                            /\ AppendedByStep[k].requestId = req'[r].requestId
                            /\ AppendedByStep[k].route = RouteOfRequest(req'[r])
          /\ (\A r \in RequestSlots : req'[r] = req[r]) => AppendedByStep = <<>>]_vars
    /\ [](/\ Len(records) = HeldUpTo(Cardinality(RequestSlots))
          /\ \A r \in RequestSlots :
                (req[r].pc = "done" /\ req[r].response.hasMeta)
                   => /\ req[r].response.requestId = req[r].requestId
                      /\ req[r].requestId # <<>>
                      /\ Len(req[r].response.providerAttempts) = Held(req[r]))

\* a candle request and a search request have ended whose records lie
\* interleaved in the log
C36_Witness ==
    \E r, s \in RequestSlots :
       /\ req[r].kind = "candles" /\ req[r].pc = "done" /\ req[r].response.hasMeta
       /\ req[s].kind = "search" /\ req[s].pc = "done" /\ req[s].response.hasMeta
       /\ Len(req[r].response.providerAttempts) >= 2
       /\ Len(req[s].response.providerAttempts) = 2
       /\ \E i, j, k \in 1..Len(records) :
             /\ i < j /\ j < k
             /\ records[i].route = CANDLES_ROUTE /\ records[i].requestId = req[r].requestId
             /\ records[j].route = SEARCH_ROUTE /\ records[j].requestId = req[s].requestId
             /\ records[k].route = CANDLES_ROUTE

----------------------------------------------------------------------------
(* Properties of the score of a description *)

\* the query lies in the word from its k-th letter on
LiesAt(word, query, k) ==
    /\ k + Len(query) - 1 <= Len(word)
    /\ SubSeq(ToLowerCase(word), k, k + Len(query) - 1) = query

\* the query occurs in the description, and only inside words: it is no
\* word of the description and begins none
OnlyInsideWords(words, query) ==
    /\ \E i \in 1..Len(words) : \E k \in 2..Len(words[i]) : LiesAt(words[i], query, k)
    /\ \A i \in 1..Len(words) : ~LiesAt(words[i], query, 1)

\* C37: for a query of one word and a description that holds the query only
\* inside words (as no whole word and at the beginning of no word) the part
\* of the score that comes from the description is below 0.
C37_InsideWordMatchPenalised ==
    (call.fn = "scoreCandidate" /\ OnlyInsideWords(call.words, call.query))
       => call.part < 0

\* for such a query and description the part of the score that comes from
\* the description is -220 when the query has 4 characters or more and 0
\* when it has fewer: never above 0
C37_InsideWordMatchNeverRewarded ==
    (call.fn = "scoreCandidate" /\ OnlyInsideWords(call.words, call.query))
       => call.part = (IF Len(call.query) >= 4 THEN -220 ELSE 0)

\* the query "app" and the description "Snapple Inc": the part of the score
\* that comes from the description is 0
C37_Witness ==
    /\ call.fn = "scoreCandidate"
    /\ call.query = <<"a", "p", "p">>
    /\ call.description = <<"S", "n", "a", "p", "p", "l", "e", " ", "I", "n", "c">>
    /\ OnlyInsideWords(call.words, call.query)
    /\ call.part = 0

\* the query "apple" and the description "Pineapple Energy": the part is -220
C37_PenaltyReached ==
    /\ call.fn = "scoreCandidate"
    /\ call.query = <<"a", "p", "p", "l", "e">>
    /\ call.description = <<"P", "i", "n", "e", "a", "p", "p", "l", "e", " ", "E", "n", "e", "r", "g", "y">>
    /\ call.part = -220

============================================================================
